---- MODULE Spec2Model ----
(***************************************************************************)
(* A model of the document extraction service: the document context, the  *)
(* router, the extractor agent, the validator and the orchestrator.       *)
(*                                                                         *)
(* Conventions.                                                            *)
(*  - A Python str that the code inspects character by character (the     *)
(*    file type) is a sequence of one-character strings.                   *)
(*  - A message built by an f-string is the sequence of its parts.         *)
(*  - A dict is a function whose domain is its key set.                    *)
(*  - A call either returns or raises: [tag |-> "ret", val |-> v] or       *)
(*    [tag |-> "raise", exc |-> e].                                        *)
(*  - Calls between the components are modelled as completed calls (the    *)
(*    callee's result is what the caller reads).                           *)
(***************************************************************************)
EXTENDS Integers, Sequences, FiniteSets, TLC

VARIABLES
    settings,     \* the Settings object the agents are built from
    router,       \* the DocumentRouter's fields
    request,      \* the request being served
    pc,           \* position of the request in the pipeline
    context,      \* the DocumentContext of the request
    routing,      \* outcome of the last routing call
    pending,      \* what the extractor agent holds across a backend call
    reply,        \* the answer of the backend last called, until it is consumed
    extraction,   \* the ExtractionResult returned by the extractor agent
    validation,   \* the ValidatorAgentOutput returned by the validator agent
    result,       \* the OrchestrationResult returned by orchestrate
    http_response, \* the answer of extract_document_data to the client
    calls,        \* number of calls issued to each stage and backend
    replies,      \* the answers the backends gave to the request, in order
    suspended     \* the frame of a second request waiting at an await, if any

vars == <<settings, router, request, pc, context, routing, pending, reply,
          extraction, validation, result, http_response, calls, replies, suspended>>

----------------------------------------------------------------------------
(* Bounds of the model *)

MaxDensity == 120

MaxPages == 2

MaxElements == 2

----------------------------------------------------------------------------
(* Generic helpers *)

None == [tag |-> "None"]

Ret(v) == [tag |-> "ret", val |-> v]

Raise(e) == [tag |-> "raise", exc |-> e]

Get(d, k, default) == IF k \in DOMAIN d THEN d[k] ELSE default

Update(d, e) == [k \in (DOMAIN d) \cup (DOMAIN e) |-> IF k \in DOMAIN e THEN e[k] ELSE d[k]]

EmptyDict == [k \in {} |-> None]

----------------------------------------------------------------------------
(* exceptions.py: the class hierarchy *)

ExcParent ==
    [ DocumentExtractionError |-> "Exception",
      ConfigurationError |-> "DocumentExtractionError",
      DocumentParsingError |-> "DocumentExtractionError",
      Base64DecodingError |-> "DocumentParsingError",
      PDFParsingError |-> "DocumentParsingError",
      DOCXParsingError |-> "DocumentParsingError",
      ImageParsingError |-> "DocumentParsingError",
      DocumentRoutingError |-> "DocumentExtractionError",
      UnsupportedFileTypeError |-> "DocumentRoutingError",
      ExtractionError |-> "DocumentExtractionError",
      TextExtractionError |-> "ExtractionError",
      VisionExtractionError |-> "ExtractionError",
      DocumentIntelligenceError |-> "ExtractionError",
      RequiredFieldMissingError |-> "ExtractionError",
      InvalidExtractionResultError |-> "ExtractionError",
      DocumentIntelligenceNotConfiguredError |-> "ExtractionError",
      ValidationError |-> "DocumentExtractionError",
      ValueError |-> "Exception",
      BinasciiError |-> "ValueError",
      BackendError |-> "Exception",
      ReaderError |-> "Exception" ]

RECURSIVE IsInstance(_, _)
IsInstance(cls, base) ==
    IF cls = base THEN TRUE
    ELSE IF cls \in DOMAIN ExcParent THEN IsInstance(ExcParent[cls], base)
    ELSE FALSE

NoDetails == [none |-> TRUE]

DocumentExtractionError(cls, message) ==
    [cls |-> cls, message |-> message, details |-> NoDetails]

PyError(cls, message) ==
    [cls |-> cls, message |-> message, details |-> NoDetails]

UnsupportedFileTypeError(file_type, supported_types) ==
    [ cls |-> "UnsupportedFileTypeError",
      message |-> <<"Unsupported file type: ">> \o file_type,
      details |-> [file_type |-> file_type, supported_types |-> supported_types] ]

Str(exc) == exc.message

----------------------------------------------------------------------------
(* str.lower() and str.strip() on a file type *)

UpperToLower ==
    [ A |-> "a", B |-> "b", C |-> "c", D |-> "d", E |-> "e", F |-> "f", G |-> "g",
      J |-> "j", N |-> "n", O |-> "o", P |-> "p", T |-> "t", X |-> "x" ]

Whitespace == {" ", "\n", "\t"}

LowerChar(c) == IF c \in DOMAIN UpperToLower THEN UpperToLower[c] ELSE c

Lower(s) == [i \in 1..Len(s) |-> LowerChar(s[i])]

RECURSIVE LStrip(_)
LStrip(s) ==
    IF s # <<>> /\ Head(s) \in Whitespace THEN LStrip(Tail(s)) ELSE s

RECURSIVE RStrip(_)
RStrip(s) ==
    IF s # <<>> /\ s[Len(s)] \in Whitespace THEN RStrip(SubSeq(s, 1, Len(s) - 1)) ELSE s

Strip(s) == RStrip(LStrip(s))

PDF == <<"p", "d", "f">>

DOCX == <<"d", "o", "c", "x">>

PNG == <<"p", "n", "g">>

JPG == <<"j", "p", "g">>

JPEG == <<"j", "p", "e", "g">>

----------------------------------------------------------------------------
(* document_parser.py: DocumentContext *)

(* Mutant: the declared file type is kept as sent. *)
DocumentContext_unnormalized(file_type, base64_data, raw_bytes) ==
    [ file_type |-> file_type,
      base64_data |-> base64_data,
      raw_bytes |-> raw_bytes ]

DocumentContext(file_type, base64_data, raw_bytes) ==
    [ file_type |-> Strip(Lower(file_type)),
      base64_data |-> base64_data,
      raw_bytes |-> raw_bytes ]

(* A base64 payload: its text is "valid", "invalid" (b64decode raises) or  *)
(* "empty" (the empty string, which b64decode turns into empty bytes).     *)
EmptyBytes ==
    [kind |-> "empty", total_pages |-> 0, first_len |-> 0, other_text |-> FALSE,
     has_text |-> FALSE, width |-> 0, height |-> 0]

b64decode(base64_data) ==
    IF base64_data.text = "invalid"
    THEN Raise(PyError("BinasciiError", <<"Incorrect padding">>))
    ELSE Ret(base64_data.bytes)

raw_bytes(ctx) ==
    IF ctx.raw_bytes # None THEN Ret(ctx.raw_bytes)
    ELSE LET r == b64decode(ctx.base64_data)
         IN IF r.tag = "raise"
            THEN Raise(DocumentExtractionError("Base64DecodingError",
                           <<"Invalid base64 encoding: ">> \o Str(r.exc)))
            ELSE r

(* Mutant: the decoded bytes are not kept. *)
raw_bytes_cached_never(ctx) == ctx

(* The context after a read of raw_bytes: the bytes decoded by the read are kept *)
raw_bytes_cached(ctx) ==
    IF ctx.raw_bytes # None THEN ctx
    ELSE LET r == b64decode(ctx.base64_data)
         IN IF r.tag = "raise" THEN ctx ELSE [ctx EXCEPT !.raw_bytes = r.val]

(* The library readers, by what they do on the decoded bytes. *)
PdfReader(bytes) ==
    IF bytes.kind = "pdf" THEN Ret(bytes)
    ELSE Raise(PyError("ReaderError", <<"EOF marker not found">>))

ImageOpen(bytes) ==
    IF bytes.kind = "image" THEN Ret(bytes)
    ELSE Raise(PyError("ReaderError", <<"cannot identify image file">>))

----------------------------------------------------------------------------
(* router.py: DocumentRouter *)

ScannedTextLimit == 50

DocumentTypeValue ==
    [PDF |-> "pdf", DOCX |-> "docx", PNG |-> "png", JPG |-> "jpg", JPEG |-> "jpeg"]

DocumentTypes == DOMAIN DocumentTypeValue

ImageTypes == {"PNG", "JPG", "JPEG"}

(* The dict of _detect_document_type, in insertion order. *)
file_type_map ==
    << [key |-> PDF, doc_type |-> "PDF"], [key |-> DOCX, doc_type |-> "DOCX"],
       [key |-> PNG, doc_type |-> "PNG"], [key |-> JPG, doc_type |-> "JPG"],
       [key |-> JPEG, doc_type |-> "JPEG"] >>

DocumentRouter(use_di, density_thr, low_res_thr, di_scanned, di_low_text, di_poor) ==
    [ use_document_intelligence |-> use_di,
      text_density_threshold |-> density_thr,
      low_resolution_threshold |-> low_res_thr,
      use_di_for_scanned |-> di_scanned,
      use_di_for_low_text |-> di_low_text,
      use_di_for_poor_quality |-> di_poor ]

detect_document_type(file_type) ==
    IF \A i \in 1..Len(file_type_map) : file_type_map[i].key # file_type
    THEN LET supported == [i \in 1..Len(file_type_map) |-> file_type_map[i].key]
         IN Raise(UnsupportedFileTypeError(file_type, supported))
    ELSE LET i == CHOOSE j \in 1..Len(file_type_map) : file_type_map[j].key = file_type
         IN Ret(file_type_map[i].doc_type)

(* Mutant: a first page of exactly ScannedTextLimit characters counts as digital. *)
has_digital_text_inclusive(text_density) == text_density >= ScannedTextLimit

(* has_text = text_density > 50 *)
has_digital_text(text_density) == text_density > ScannedTextLimit

analyze_pdf(ctx) ==
    LET bytes == raw_bytes(ctx)
        reader == IF bytes.tag = "raise" THEN bytes ELSE PdfReader(bytes.val)
    IN IF reader.tag = "raise"
       THEN Ret([error |-> <<"PDF analysis failed: ">> \o Str(reader.exc)])
       ELSE LET total_pages == reader.val.total_pages
                text_density == reader.val.first_len
                has_text == has_digital_text(text_density)
            IN IF total_pages > 0
               THEN Ret([ total_pages |-> total_pages,
                          text_density |-> text_density,
                          has_extractable_text |-> has_text,
                          is_likely_scanned |-> ~has_text ])
               ELSE Ret([total_pages |-> 0])

analyze_docx(ctx) ==
    Ret([has_extractable_text |-> TRUE, is_structured |-> TRUE])

analyze_image(self, ctx) ==
    LET bytes == raw_bytes(ctx)
        image == IF bytes.tag = "raise" THEN bytes ELSE ImageOpen(bytes.val)
    IN IF image.tag = "raise"
       THEN Ret([error |-> <<"Image analysis failed: ">> \o Str(image.exc)])
       ELSE LET total_pixels == image.val.width * image.val.height
            IN Ret([ width |-> image.val.width,
                     height |-> image.val.height,
                     mode |-> "RGB",
                     total_pixels |-> total_pixels,
                     is_low_resolution |-> total_pixels < self.low_resolution_threshold,
                     is_image |-> TRUE ])

analyze_document(self, ctx, doc_type) ==
    LET metadata == [doc_type |-> DocumentTypeValue[doc_type]]
        analysis == IF doc_type = "PDF" THEN analyze_pdf(ctx)
                    ELSE IF doc_type = "DOCX" THEN analyze_docx(ctx)
                    ELSE IF doc_type \in ImageTypes THEN analyze_image(self, ctx)
                    ELSE Ret(EmptyDict)
    IN IF analysis.tag = "raise"
       THEN Update(metadata, [analysis_error |-> Str(analysis.exc)])
       ELSE Update(metadata, analysis.val)

(* Mutant: a low-resolution image goes to OCR when the router may use it. *)
select_image_method_poor_quality(self, metadata) ==
    IF /\ self.use_document_intelligence
       /\ self.use_di_for_poor_quality
       /\ Get(metadata, "is_low_resolution", FALSE)
    THEN Ret([ method |-> "document_intelligence",
               reasoning |-> <<"Low-resolution image requires OCR preprocessing">> ])
    ELSE Ret([ method |-> "llm_vision",
               reasoning |-> <<"Image document requires vision-capable model for extraction">> ])

(* The image branch of _select_extraction_method. *)
select_image_method(self, metadata) ==
    Ret([ method |-> "llm_vision",
          reasoning |-> <<"Image document requires vision-capable model for extraction">> ])

pdf_numbers(self, text_density) ==
    <<"(density: ", ToString(text_density), ", threshold: ",
      ToString(self.text_density_threshold), ")">>

(* Mutant: a scanned PDF is an error when the router may not use OCR. *)
select_pdf_method_strict(self, metadata) ==
    LET is_scanned == Get(metadata, "is_likely_scanned", FALSE)
        text_density == Get(metadata, "text_density", 0)
        low_text == text_density < self.text_density_threshold
    IN IF self.use_document_intelligence
          /\ ((is_scanned /\ self.use_di_for_scanned) \/ (low_text /\ self.use_di_for_low_text))
       THEN Ret([ method |-> "document_intelligence",
                  reasoning |-> <<"Scanned/low-text PDF ">> \o pdf_numbers(self, text_density)
                                 \o <<" requires OCR preprocessing">> ])
       ELSE IF is_scanned \/ low_text
       THEN Raise(DocumentExtractionError("DocumentRoutingError",
                      <<"Scanned PDF requires Document Intelligence">>))
       ELSE Ret([ method |-> "llm_text",
                  reasoning |-> <<"Digital PDF with extractable text ">>
                                 \o pdf_numbers(self, text_density) ])

(* Mutant: a density equal to the threshold counts as low text. *)
select_pdf_method_inclusive(self, metadata) ==
    LET is_scanned == Get(metadata, "is_likely_scanned", FALSE)
        text_density == Get(metadata, "text_density", 0)
        low_text == text_density <= self.text_density_threshold
    IN IF self.use_document_intelligence
          /\ ((is_scanned /\ self.use_di_for_scanned) \/ (low_text /\ self.use_di_for_low_text))
       THEN Ret([ method |-> "document_intelligence",
                  reasoning |-> <<"Scanned/low-text PDF ">> \o pdf_numbers(self, text_density)
                                 \o <<" requires OCR preprocessing">> ])
       ELSE IF is_scanned \/ low_text
       THEN Ret([ method |-> "llm_vision",
                  reasoning |-> <<"Scanned/low-text PDF ">> \o pdf_numbers(self, text_density)
                                 \o <<" requires vision-capable model">> ])
       ELSE Ret([ method |-> "llm_text",
                  reasoning |-> <<"Digital PDF with extractable text ">>
                                 \o pdf_numbers(self, text_density) ])

(* The PDF branch of _select_extraction_method. *)
select_pdf_method(self, metadata) ==
    LET is_scanned == Get(metadata, "is_likely_scanned", FALSE)
        text_density == Get(metadata, "text_density", 0)
        should_use_di ==
            IF self.use_document_intelligence
            THEN IF is_scanned /\ self.use_di_for_scanned THEN TRUE
                 ELSE IF text_density < self.text_density_threshold /\ self.use_di_for_low_text
                 THEN TRUE
                 ELSE FALSE
            ELSE FALSE
    IN IF should_use_di
       THEN Ret([ method |-> "document_intelligence",
                  reasoning |-> <<"Scanned/low-text PDF ">> \o pdf_numbers(self, text_density)
                                 \o <<" requires OCR preprocessing">> ])
       ELSE IF is_scanned \/ text_density < self.text_density_threshold
       THEN Ret([ method |-> "llm_vision",
                  reasoning |-> <<"Scanned/low-text PDF ">> \o pdf_numbers(self, text_density)
                                 \o <<" requires vision-capable model">> ])
       ELSE Ret([ method |-> "llm_text",
                  reasoning |-> <<"Digital PDF with extractable text ">>
                                 \o pdf_numbers(self, text_density) ])

select_extraction_method(self, doc_type, metadata) ==
    IF doc_type \in ImageTypes THEN select_image_method(self, metadata)
    ELSE IF doc_type = "DOCX"
    THEN Ret([ method |-> "llm_text",
               reasoning |-> <<"DOCX document has structured extractable text">> ])
    ELSE IF doc_type = "PDF" THEN select_pdf_method(self, metadata)
    ELSE Ret([ method |-> "llm_text", reasoning |-> <<"Default text-based extraction">> ])

RoutingDecision(method, doc_type, reasoning, metadata) ==
    [method |-> method, doc_type |-> doc_type, reasoning |-> reasoning, metadata |-> metadata]

analyze_and_route(self, ctx) ==
    LET doc_type == detect_document_type(ctx.file_type)
    IN IF doc_type.tag = "raise" THEN doc_type
       ELSE LET metadata == analyze_document(self, ctx, doc_type.val)
                selected == select_extraction_method(self, doc_type.val, metadata)
            IN IF selected.tag = "raise"
               THEN IF IsInstance(selected.exc.cls, "DocumentRoutingError")
                    THEN selected
                    ELSE Raise(DocumentExtractionError("DocumentRoutingError",
                                   <<"Document routing failed: ">> \o Str(selected.exc)))
               ELSE Ret(RoutingDecision(selected.val.method, doc_type.val,
                                        selected.val.reasoning, metadata))

----------------------------------------------------------------------------
(* Inputs: documents, payloads, file types, router configurations *)

Bytes(kind, total_pages, first_len, other_text, has_text, width, height) ==
    [kind |-> kind, total_pages |-> total_pages, first_len |-> first_len,
     other_text |-> other_text, has_text |-> has_text, width |-> width, height |-> height]

GarbageBytes == Bytes("garbage", 0, 0, FALSE, FALSE, 0, 0)

PdfBytes ==
    { Bytes("pdf", 0, 0, FALSE, FALSE, 0, 0) } \cup
    { Bytes("pdf", n, d, o, FALSE, 0, 0) :
        <<n, d, o>> \in { t \in (1..MaxPages) \X (0..MaxDensity) \X BOOLEAN :
                            t[1] = 1 => ~t[3] } }

ImageSides == {500, 1000}

ImageBytes == { Bytes("image", 0, 0, FALSE, FALSE, w, h) : w \in ImageSides, h \in ImageSides }

DocxBytes == { Bytes("docx", 0, 0, FALSE, t, 0, 0) : t \in BOOLEAN }

AllBytes == PdfBytes \cup ImageBytes \cup DocxBytes \cup {GarbageBytes}

Payload(text, bytes) == [text |-> text, bytes |-> bytes]

DecodablePayloads == { Payload("valid", b) : b \in AllBytes } \cup { Payload("empty", EmptyBytes) }

FileTypeInputs ==
    { PDF, <<" ", "P", "D", "F", "\n">>, <<"D", "o", "c", "x">>, PNG, <<"J", "P", "G">>,
      <<"\t", "j", "p", "e", "g", " ">>, <<"t", "x", "t">>, <<>>, <<"p", "d", "f", "x">> }

DefaultTextDensityThreshold == 100

DefaultLowResolutionThreshold == 500000

TextDensityThresholds == {0, 60, DefaultTextDensityThreshold}

RouterConfigs ==
    { DocumentRouter(di, thr, DefaultLowResolutionThreshold, sc, lt, pq) :
        di \in BOOLEAN, thr \in TextDensityThresholds, sc \in BOOLEAN, lt \in BOOLEAN,
        pq \in {TRUE} }

(* Metadata dicts handed directly to _select_extraction_method. *)
MkMetadata(scanned, density, image) ==
    Update(Update(IF scanned = 0 THEN EmptyDict
                  ELSE [is_likely_scanned |-> (scanned = 1), has_extractable_text |-> (scanned # 1)],
                  IF density < 0 THEN EmptyDict ELSE [text_density |-> density]),
           IF image THEN [is_image |-> TRUE] ELSE EmptyDict)

MetadataInputs ==
    { MkMetadata(sc, d, img) :
        sc \in 0..2, d \in {-1, 0, ScannedTextLimit, ScannedTextLimit + 1, MaxDensity},
        img \in BOOLEAN }

----------------------------------------------------------------------------
(* The router on its own: one call of analyze_and_route or of              *)
(* _select_extraction_method, on every input.                              *)

NoCalls == [extract |-> 0, validate |-> 0, text_model |-> 0, vision_model |-> 0,
            ocr |-> 0, validation_model |-> 0]

RouterInit ==
    /\ settings = None
    /\ router = None
    /\ request = None
    /\ pc = "router"
    /\ context = None
    /\ routing = None
    /\ pending = None
    /\ reply = None
    /\ extraction = None
    /\ validation = None
    /\ result = None
    /\ http_response = None
    /\ calls = NoCalls
    /\ replies = <<>>
    /\ suspended = None

RouteCall ==
    /\ pc = "router"
    /\ \E r \in RouterConfigs, ft \in FileTypeInputs, p \in DecodablePayloads :
         LET ctx == DocumentContext(ft, p, b64decode(p).val)
         IN /\ router' = r
            /\ request' = [file_type |-> ft, document_base64 |-> p]
            /\ context' = ctx
            /\ routing' = [ call |-> "analyze_and_route", doc_type |-> "",
                            metadata |-> EmptyDict,
                            out |-> analyze_and_route(r, ctx) ]
    /\ pc' = "routed"
    /\ UNCHANGED <<suspended, replies, http_response, settings, pending, reply, extraction, validation, result, calls>>

SelectCall ==
    /\ pc = "router"
    /\ \E r \in RouterConfigs, dt \in DocumentTypes, md \in MetadataInputs :
         /\ router' = r
         /\ routing' = [ call |-> "select_extraction_method", doc_type |-> dt,
                         metadata |-> md,
                         out |-> select_extraction_method(r, dt, md) ]
    /\ request' = None
    /\ context' = None
    /\ pc' = "routed"
    /\ UNCHANGED <<suspended, replies, http_response, settings, pending, reply, extraction, validation, result, calls>>

RouterNext == RouteCall \/ SelectCall

RouterSpec == RouterInit /\ [][RouterNext]_vars

----------------------------------------------------------------------------
(* document_parser.py: the parsers *)

RECURSIVE JoinParts(_, _)
JoinParts(texts, sep) ==
    IF texts = <<>> THEN <<>>
    ELSE IF Len(texts) = 1 THEN texts[1]
    ELSE texts[1] \o <<sep>> \o JoinParts(Tail(texts), sep)

PageHasText(bytes, page_num) ==
    IF page_num = 1 THEN bytes.first_len > 0 ELSE bytes.other_text

RECURSIVE PdfPageTexts(_, _)
PdfPageTexts(bytes, page_num) ==
    IF page_num > bytes.total_pages THEN <<>>
    ELSE (IF PageHasText(bytes, page_num)
          THEN << <<"=== Page ", ToString(page_num), " ===\n", "page text">> >>
          ELSE <<>>) \o PdfPageTexts(bytes, page_num + 1)

parse_pdf(ctx, all_pages) ==
    LET bytes == raw_bytes(ctx)
    IN IF bytes.tag = "raise" THEN bytes
       ELSE LET reader == PdfReader(bytes.val)
            IN IF reader.tag = "raise"
               THEN Raise(DocumentExtractionError("PDFParsingError",
                              <<"Failed to parse PDF document: ">> \o Str(reader.exc)))
               ELSE IF reader.val.total_pages = 0
               THEN Raise(DocumentExtractionError("PDFParsingError",
                              <<"PDF document has no pages">>))
               ELSE IF all_pages
               THEN LET texts == PdfPageTexts(reader.val, 1)
                    IN IF texts = <<>>
                       THEN Raise(DocumentExtractionError("PDFParsingError",
                                      <<"No text could be extracted from any PDF page">>))
                       ELSE Ret(JoinParts(texts, "\n\n"))
               ELSE IF ~PageHasText(reader.val, 1)
               THEN Raise(DocumentExtractionError("PDFParsingError",
                              <<"No text could be extracted from PDF first page">>))
               ELSE Ret(<<"page text">>)

parse_docx(ctx) ==
    LET bytes == raw_bytes(ctx)
    IN IF bytes.tag = "raise" THEN bytes
       ELSE IF bytes.val.kind # "docx"
       THEN Raise(DocumentExtractionError("DOCXParsingError",
                      <<"Failed to parse DOCX document: ", "File is not a zip file">>))
       ELSE IF ~bytes.val.has_text
       THEN Raise(DocumentExtractionError("DOCXParsingError",
                      <<"No text could be extracted from DOCX document">>))
       ELSE Ret(<<"paragraph text">>)

parse_image(ctx) ==
    LET bytes == raw_bytes(ctx)
    IN IF bytes.tag = "raise" THEN bytes
       ELSE LET image == ImageOpen(bytes.val)
            IN IF image.tag = "raise"
               THEN Raise(DocumentExtractionError("ImageParsingError",
                              <<"Failed to parse image: ">> \o Str(image.exc)))
               ELSE Ret([ base64_data |-> ctx.base64_data,
                          width |-> image.val.width,
                          height |-> image.val.height,
                          mode |-> "RGB",
                          format |-> "PNG",
                          media_type |-> <<"image/">> \o Lower(ctx.file_type) ])

parse_document(ctx, all_pages) ==
    IF ctx.file_type = PDF THEN parse_pdf(ctx, all_pages)
    ELSE IF ctx.file_type = DOCX THEN parse_docx(ctx)
    ELSE IF ctx.file_type \in {PNG, JPG, JPEG}
    THEN Raise(DocumentExtractionError("DocumentParsingError",
                   <<"Image files (">> \o ctx.file_type
                   \o <<") require vision-based extraction. Use parse_image() instead.">>))
    ELSE Raise(UnsupportedFileTypeError(ctx.file_type, <<PDF, DOCX, PNG, JPG, JPEG>>))

parse_image_document(ctx) == parse_image(ctx)

----------------------------------------------------------------------------
(* extractor.py: Extractor.  A call to a backend is a point where the code *)
(* waits; the operators below are the code before and after that point,    *)
(* the backend's outcome (a response, or an exception) being a parameter.  *)

Call(backend, input) == [tag |-> "call", backend |-> backend, input |-> input]

DocumentAnalysisClient == [client |-> "DocumentAnalysisClient"]

DocumentIntelligenceFactory_create(s) ==
    LET config == s.azure_document_intelligence
    IN IF config = None THEN None
       ELSE IF config.endpoint = None THEN None
       ELSE IF config.use_managed_identity THEN DocumentAnalysisClient
       ELSE IF config.key # None THEN DocumentAnalysisClient
       ELSE None

Extractor(s) == [doc_intelligence_client |-> DocumentIntelligenceFactory_create(s)]

ExtractionPayload(data, document_content) ==
    [data |-> data, document_content |-> document_content]

(* A model response: its text holds no braces ("no_object"), a braced       *)
(* segment that is not JSON ("malformed"), or a JSON object ("object").     *)
ExtractionResultParser_parse(response) ==
    IF response.json = "no_object"
    THEN Raise(DocumentExtractionError("InvalidExtractionResultError",
                   <<"No JSON object found in response">>))
    ELSE IF response.json = "malformed"
    THEN Raise(DocumentExtractionError("InvalidExtractionResultError",
                   <<"Failed to parse extraction result as JSON: ", "Expecting value">>))
    ELSE Ret(response.data)

extract_from_text(text, data_elements, response) ==
    IF response.tag = "raise"
    THEN Raise(DocumentExtractionError("TextExtractionError",
                   <<"Text extraction failed: ">> \o Str(response.exc)))
    ELSE LET extracted_data == ExtractionResultParser_parse(response.val)
         IN IF extracted_data.tag = "raise" THEN extracted_data
            ELSE Ret(ExtractionPayload(extracted_data.val, text))

extract_from_image(image_data, data_elements, response) ==
    IF response.tag = "raise"
    THEN Raise(DocumentExtractionError("VisionExtractionError",
                   <<"Vision extraction failed: ">> \o Str(response.exc)))
    ELSE LET extracted_data == ExtractionResultParser_parse(response.val)
             doc_descriptor ==
                 <<"[Vision document] media=">> \o image_data.media_type
                 \o <<" type=", Get(image_data, "document_type", Get(image_data, "format", "unknown")),
                      " width=",
                      IF "width" \in DOMAIN image_data THEN ToString(image_data.width) ELSE "n/a",
                      " height=",
                      IF "height" \in DOMAIN image_data THEN ToString(image_data.height) ELSE "n/a">>
         IN IF extracted_data.tag = "raise" THEN extracted_data
            ELSE Ret(ExtractionPayload(extracted_data.val, doc_descriptor))

(* extract_with_document_intelligence up to the OCR call *)
extract_with_document_intelligence(self, document_base64) ==
    IF self.doc_intelligence_client = None
    THEN Raise(DocumentExtractionError("DocumentIntelligenceNotConfiguredError",
                   <<"Azure Document Intelligence not configured. ",
                     "Set AZURE_DOCUMENT_INTELLIGENCE_* values in your .env">>))
    ELSE LET document_bytes == b64decode(document_base64)
         IN IF document_bytes.tag = "raise"
            THEN Raise(DocumentExtractionError("DocumentIntelligenceError",
                           <<"Document Intelligence extraction failed: ">>
                           \o Str(document_bytes.exc)))
            ELSE Call("ocr", document_bytes.val)

(* Mutant: the text model is asked even when OCR recognized no line. *)
ocr_text_content_unchecked(analysis) ==
    IF analysis.tag = "raise"
    THEN Raise(DocumentExtractionError("DocumentIntelligenceError",
                   <<"Document Intelligence extraction failed: ">> \o Str(analysis.exc)))
    ELSE IF analysis.val.pages_with_lines = 0
    THEN Call("text_model", <<>>)
    ELSE Call("text_model", <<"=== Page ", "1", " ===\n", "ocr lines">>)

(* extract_with_document_intelligence from the OCR outcome to the text model call *)
ocr_text_content(analysis) ==
    IF analysis.tag = "raise"
    THEN Raise(DocumentExtractionError("DocumentIntelligenceError",
                   <<"Document Intelligence extraction failed: ">> \o Str(analysis.exc)))
    ELSE IF analysis.val.pages_with_lines = 0
    THEN Raise(DocumentExtractionError("DocumentIntelligenceError",
                   <<"No text extracted by Document Intelligence">>))
    ELSE Call("text_model", <<"=== Page ", "1", " ===\n", "ocr lines">>)

(* Truthiness of an optional dict *)
Truthy(value) == value # None /\ value # EmptyDict

(* None in a place that otherwise holds a str, and truthiness there *)
NoneStr == <<"<None>">>

TruthyStr(value) == value # NoneStr /\ value # <<>>

TruthyPayload(document_base64) == document_base64 # None /\ document_base64.text # "empty"

(* Mutant: the image is looked at before the OCR flag. *)
extract_vision_first(self, text, data_elements, image_data, document_base64, use_di) ==
    IF Truthy(image_data) THEN Call("vision_model", image_data)
    ELSE IF use_di /\ TruthyPayload(document_base64)
    THEN extract_with_document_intelligence(self, document_base64)
    ELSE IF TruthyStr(text) THEN Call("text_model", text)
    ELSE Raise(DocumentExtractionError("ExtractionError",
                   <<"No valid input provided for extraction">>))

(* Extractor.extract up to the first backend call *)
extract(self, text, data_elements, image_data, document_base64, use_di) ==
    IF use_di /\ TruthyPayload(document_base64)
    THEN extract_with_document_intelligence(self, document_base64)
    ELSE IF Truthy(image_data) THEN Call("vision_model", image_data)
    ELSE IF TruthyStr(text) THEN Call("text_model", text)
    ELSE Raise(DocumentExtractionError("ExtractionError",
                   <<"No valid input provided for extraction">>))

RequiredFieldMissingError(field_name, field_description) ==
    [ cls |-> "RequiredFieldMissingError",
      message |-> <<"Required field '", field_name, "' not found in document">>,
      details |-> [field_name |-> field_name, field_description |-> field_description] ]

(* Mutant: a required field with a null value passes the check. *)
RECURSIVE validate_required_fields_nullable(_, _)
validate_required_fields_nullable(payload, data_elements) ==
    IF data_elements = <<>> THEN Ret(payload)
    ELSE LET element == Head(data_elements)
             field_name == element.name
         IN IF Get(element, "required", FALSE) /\ field_name \notin DOMAIN payload.data
            THEN Raise(RequiredFieldMissingError(field_name, Get(element, "description", None)))
            ELSE validate_required_fields_nullable(payload, Tail(data_elements))

RECURSIVE validate_required_fields(_, _)
validate_required_fields(payload, data_elements) ==
    IF data_elements = <<>> THEN Ret(payload)
    ELSE LET element == Head(data_elements)
             field_name == element.name
         IN IF /\ Get(element, "required", FALSE)
               /\ \/ field_name \notin DOMAIN payload.data
                  \/ payload.data[field_name] = None
            THEN Raise(RequiredFieldMissingError(field_name, Get(element, "description", None)))
            ELSE validate_required_fields(payload, Tail(data_elements))

(* Extractor.extract from the payload of the selected method to its return *)
extract_return(payload, data_elements) ==
    IF payload.tag = "raise" THEN payload
    ELSE validate_required_fields(payload.val, data_elements)

----------------------------------------------------------------------------
(* extractor_agent.py: ExtractorAgent *)

ExtractionResult(success, data, error, metadata, document_content) ==
    [ success |-> success,
      data |-> IF Truthy(data) THEN data ELSE EmptyDict,
      error |-> error,
      metadata |-> IF Truthy(metadata) THEN metadata ELSE EmptyDict,
      document_content |-> document_content ]

ExtractorAgent(s) ==
    LET has_document_intelligence ==
            /\ s.azure_document_intelligence # None
            /\ s.azure_document_intelligence.endpoint # None
    IN [ extractor |-> Extractor(s),
         has_document_intelligence |-> has_document_intelligence,
         router |-> DocumentRouter(has_document_intelligence,
                        s.routing_thresholds.text_density_threshold,
                        s.routing_thresholds.low_resolution_threshold,
                        s.routing_thresholds.use_document_intelligence.scanned_document,
                        s.routing_thresholds.use_document_intelligence.low_text_density,
                        s.routing_thresholds.use_document_intelligence.poor_image_quality) ]

extract_with_text(self, ctx, data_elements) ==
    LET text == parse_document(ctx, TRUE)
    IN IF text.tag = "raise" THEN text
       ELSE extract(self.extractor, text.val, data_elements, None, None, FALSE)

extract_with_vision(self, ctx, data_elements) ==
    LET document_data ==
            IF ctx.file_type = PDF
            THEN Ret([ base64_data |-> ctx.base64_data,
                       media_type |-> <<"application/pdf">>,
                       document_type |-> "pdf" ])
            ELSE parse_image_document(ctx)
    IN IF document_data.tag = "raise" THEN document_data
       ELSE extract(self.extractor, NoneStr, data_elements, document_data.val, None, FALSE)

extract_with_document_intelligence_strategy(self, ctx, data_elements) ==
    extract(self.extractor, NoneStr, data_elements, None, ctx.base64_data, TRUE)

(* _execute_extraction up to the first backend call *)
execute_extraction(self, ctx, method, data_elements) ==
    IF method = "llm_text" THEN extract_with_text(self, ctx, data_elements)
    ELSE IF method = "llm_vision" THEN extract_with_vision(self, ctx, data_elements)
    ELSE IF method = "document_intelligence"
    THEN extract_with_document_intelligence_strategy(self, ctx, data_elements)
    ELSE Raise(PyError("ValueError", <<"Unsupported extraction method: ", method>>))

get_document_content(ctx, method) ==
    IF method \in {"llm_text", "document_intelligence"} /\ ctx.file_type \in {PDF, DOCX}
    THEN LET content == parse_document(ctx, TRUE)
         IN IF content.tag = "raise" THEN NoneStr ELSE content.val
    ELSE NoneStr

(* The except clauses of extract_from_document *)
extraction_failed(exc) ==
    IF IsInstance(exc.cls, "ValueError")
    THEN Ret(ExtractionResult(FALSE, None, Str(exc), None, NoneStr))
    ELSE Ret(ExtractionResult(FALSE, None, <<"Unexpected error: ">> \o Str(exc), None, NoneStr))

(* extract_from_document: decoding the payload and building the context *)
decode_document(document_base64, file_type) ==
    LET document_bytes == b64decode(document_base64)
    IN IF document_bytes.tag = "raise"
       THEN Raise(PyError("ValueError",
                <<"Invalid base64 document payload: ">> \o Str(document_bytes.exc)))
       ELSE Ret(DocumentContext(file_type, document_base64, document_bytes.val))

(* extract_from_document from the routing outcome to the first backend call *)
route_to_strategy(self, doc_context, routing_decision, data_elements) ==
    IF routing_decision.tag = "raise" THEN routing_decision
    ELSE execute_extraction(self, doc_context, routing_decision.val.method, data_elements)

(* extract_from_document from the payload of Extractor.extract to its return *)
extract_from_document_return(ctx, decision, payload) ==
    IF payload.tag = "raise" THEN extraction_failed(payload.exc)
    ELSE Ret(ExtractionResult(TRUE, payload.val.data, NoneStr,
                 Update([ extraction_method |-> decision.method,
                          document_type |-> DocumentTypeValue[decision.doc_type],
                          routing_reasoning |-> decision.reasoning ],
                        decision.metadata),
                 get_document_content(ctx, decision.method)))

----------------------------------------------------------------------------
(* validator.py: Validator.  Confidence scores are counted in hundredths;   *)
(* the mean of the scores is the fraction sum / count in lowest terms.      *)

DefaultMinConfidenceThreshold == 80

RECURSIVE GCD(_, _)
GCD(a, b) == IF b = 0 THEN a ELSE GCD(b, a % b)

Fraction(num, den) ==
    LET g == GCD(num, den) IN [num |-> num \div g, den |-> den \div g]

Zero == [num |-> 0, den |-> 1]

RECURSIVE Sum(_)
Sum(scores) == IF scores = <<>> THEN 0 ELSE Head(scores) + Sum(Tail(scores))

(* f"{score:.2f}" of a score counted in hundredths *)
Format2f(score) ==
    <<ToString(score \div 100), ".", ToString((score % 100) \div 10), ToString(score % 10)>>

FieldValidationResult(field_name, is_valid, confidence_score, extracted_value, reasoning) ==
    [ field_name |-> field_name, is_valid |-> is_valid,
      confidence_score |-> confidence_score, extracted_value |-> extracted_value,
      reasoning |-> reasoning ]

ValidationResult(success, field_results, overall_confidence, errors) ==
    [ success |-> success, field_results |-> field_results,
      overall_confidence |-> overall_confidence, errors |-> errors ]

field_details(validation_result) ==
    [ field_name \in DOMAIN validation_result.field_results |->
        [ is_valid |-> validation_result.field_results[field_name].is_valid,
          confidence |-> validation_result.field_results[field_name].confidence_score,
          value |-> validation_result.field_results[field_name].extracted_value,
          reasoning |-> validation_result.field_results[field_name].reasoning ] ]

ValidationResultParser_parse(response, extracted_data) ==
    IF response.json = "no_object"
    THEN Raise(DocumentExtractionError("InvalidExtractionResultError",
                   <<"No JSON object found in ", "validation response", " response">>))
    ELSE IF response.json = "malformed"
    THEN Raise(DocumentExtractionError("InvalidExtractionResultError",
                   <<"Failed to parse ", "validation response", " as JSON or YAML: ",
                     "while parsing a flow mapping">>))
    ELSE Ret([ field_name \in DOMAIN response.data |->
                 FieldValidationResult(field_name,
                     Get(response.data[field_name], "is_valid", FALSE),
                     Get(response.data[field_name], "confidence", 0),
                     Get(extracted_data, field_name, None),
                     Get(response.data[field_name], "reasoning", None)) ])

Validator(s) == [settings |-> s]

(* Mutant: a required field scored exactly at the threshold is an error. *)
check_element_inclusive(self, element, field_results, acc) ==
    LET field_name == element.name
        is_required == Get(element, "required", FALSE)
    IN IF field_name \notin DOMAIN field_results
       THEN [ errors |-> acc.errors \o
                  (IF is_required
                   THEN << <<"Required field '", field_name,
                             "' missing from validation results">> >>
                   ELSE <<>>),
              confidence_scores |-> acc.confidence_scores ]
       ELSE LET field_result == field_results[field_name]
                min_threshold == self.settings.min_confidence_threshold
            IN [ errors |-> acc.errors \o
                     (IF is_required /\ field_result.confidence_score <= min_threshold
                      THEN << <<"Required field '", field_name, "' confidence ">>
                              \o Format2f(field_result.confidence_score)
                              \o <<" below threshold ">> \o Format2f(min_threshold) >>
                      ELSE <<>>) \o
                     (IF is_required /\ ~field_result.is_valid
                      THEN << <<"Required field '", field_name, "' failed validation">> >>
                      ELSE <<>>),
                 confidence_scores |->
                     Append(acc.confidence_scores, field_result.confidence_score) ]

(* One pass of the loop over data_elements in Validator.validate *)
check_element(self, element, field_results, acc) ==
    LET field_name == element.name
        is_required == Get(element, "required", FALSE)
    IN IF field_name \notin DOMAIN field_results
       THEN [ errors |-> acc.errors \o
                  (IF is_required
                   THEN << <<"Required field '", field_name,
                             "' missing from validation results">> >>
                   ELSE <<>>),
              confidence_scores |-> acc.confidence_scores ]
       ELSE LET field_result == field_results[field_name]
                min_threshold == self.settings.min_confidence_threshold
            IN [ errors |-> acc.errors \o
                     (IF is_required /\ field_result.confidence_score < min_threshold
                      THEN << <<"Required field '", field_name, "' confidence ">>
                              \o Format2f(field_result.confidence_score)
                              \o <<" below threshold ">> \o Format2f(min_threshold) >>
                      ELSE <<>>) \o
                     (IF is_required /\ ~field_result.is_valid
                      THEN << <<"Required field '", field_name, "' failed validation">> >>
                      ELSE <<>>),
                 confidence_scores |->
                     Append(acc.confidence_scores, field_result.confidence_score) ]

RECURSIVE check_elements(_, _, _, _)
check_elements(self, data_elements, field_results, acc) ==
    IF data_elements = <<>> THEN acc
    ELSE check_elements(self, Tail(data_elements), field_results,
             check_element(self, Head(data_elements), field_results, acc))

(* Mutant: the validation model is asked even when nothing is declared. *)
validate_start_unguarded(data_elements) == Call("validation_model", data_elements)

(* Validator.validate up to the call of the validation model *)
validate_start(data_elements) ==
    IF data_elements = <<>>
    THEN Ret(ValidationResult(FALSE, EmptyDict, Zero,
                 << <<"Validation requires at least one data element">> >>))
    ELSE Call("validation_model", data_elements)

(* Mutant: a validation that scored nothing is not an error. *)
validate_return_unscored(self, data_elements, extracted_data, response) ==
    IF response.tag = "raise"
    THEN Raise(DocumentExtractionError("ValidationError",
                   <<"Validation failed: ">> \o Str(response.exc)))
    ELSE LET field_results == ValidationResultParser_parse(response.val, extracted_data)
         IN IF field_results.tag = "raise" THEN field_results
            ELSE LET checked == check_elements(self, data_elements, field_results.val,
                                    [errors |-> <<>>, confidence_scores |-> <<>>])
                     confidence_scores == checked.confidence_scores
                     overall_confidence ==
                         IF confidence_scores # <<>>
                         THEN Fraction(Sum(confidence_scores), Len(confidence_scores))
                         ELSE Zero
                 IN Ret(ValidationResult(checked.errors = <<>>, field_results.val,
                                         overall_confidence, checked.errors))

(* Validator.validate from the outcome of the validation model to its return *)
validate_return(self, data_elements, extracted_data, response) ==
    IF response.tag = "raise"
    THEN Raise(DocumentExtractionError("ValidationError",
                   <<"Validation failed: ">> \o Str(response.exc)))
    ELSE LET field_results == ValidationResultParser_parse(response.val, extracted_data)
         IN IF field_results.tag = "raise" THEN field_results
            ELSE LET checked == check_elements(self, data_elements, field_results.val,
                                    [errors |-> <<>>, confidence_scores |-> <<>>])
                     confidence_scores == checked.confidence_scores
                     errors == checked.errors \o
                               (IF confidence_scores = <<>>
                                THEN << <<"Validation produced no confidence scores">> >>
                                ELSE <<>>)
                     overall_confidence ==
                         IF confidence_scores # <<>>
                         THEN Fraction(Sum(confidence_scores), Len(confidence_scores))
                         ELSE Zero
                 IN Ret(ValidationResult(errors = <<>>, field_results.val,
                                         overall_confidence, errors))

----------------------------------------------------------------------------
(* validator_agent.py: ValidatorAgent *)

ValidatorAgentInput(document_content, data_elements, extracted_data, metadata) ==
    [ document_content |-> document_content, data_elements |-> data_elements,
      extracted_data |-> extracted_data,
      metadata |-> IF Truthy(metadata) THEN metadata ELSE EmptyDict ]

ValidatorAgentOutput(success, validated_data, confidence_scores, overall_confidence, errors, metadata) ==
    [ success |-> success, validated_data |-> validated_data,
      confidence_scores |-> confidence_scores, overall_confidence |-> overall_confidence,
      errors |-> errors,
      metadata |-> IF Truthy(metadata) THEN metadata ELSE EmptyDict ]

(* Mutant: an exception of the validator leaves ValidatorAgent.validate. *)
ValidatorAgent_validate_uncaught(validator_input, validation_result) ==
    IF validation_result.tag = "raise" THEN validation_result
    ELSE Ret(ValidatorAgentOutput(validation_result.val.success,
                 validator_input.extracted_data,
                 [ field_name \in DOMAIN validation_result.val.field_results |->
                     validation_result.val.field_results[field_name].confidence_score ],
                 validation_result.val.overall_confidence,
                 validation_result.val.errors,
                 Update(validator_input.metadata, field_details(validation_result.val))))

(* Mutant: an exception of the validator is swallowed without a message. *)
ValidatorAgent_validate_silent(validator_input, validation_result) ==
    IF validation_result.tag = "raise"
    THEN Ret(ValidatorAgentOutput(FALSE, EmptyDict, EmptyDict, Zero, <<>>,
                 validator_input.metadata))
    ELSE Ret(ValidatorAgentOutput(validation_result.val.success,
                 validator_input.extracted_data,
                 [ field_name \in DOMAIN validation_result.val.field_results |->
                     validation_result.val.field_results[field_name].confidence_score ],
                 validation_result.val.overall_confidence,
                 validation_result.val.errors,
                 Update(validator_input.metadata, field_details(validation_result.val))))

(* ValidatorAgent.validate, from the outcome of Validator.validate *)
ValidatorAgent_validate(validator_input, validation_result) ==
    IF validation_result.tag = "raise"
    THEN Ret(ValidatorAgentOutput(FALSE, EmptyDict, EmptyDict, Zero,
                 << <<"Validation failed: ">> \o Str(validation_result.exc) >>,
                 validator_input.metadata))
    ELSE Ret(ValidatorAgentOutput(validation_result.val.success,
                 validator_input.extracted_data,
                 [ field_name \in DOMAIN validation_result.val.field_results |->
                     validation_result.val.field_results[field_name].confidence_score ],
                 validation_result.val.overall_confidence,
                 validation_result.val.errors,
                 Update(validator_input.metadata, field_details(validation_result.val))))

----------------------------------------------------------------------------
(* orchestrator.py: ExtractionOrchestrator *)

OrchestrationResult(success, extracted_data, confidence_scores, overall_confidence, errors, metadata) ==
    [ success |-> success, extracted_data |-> extracted_data,
      confidence_scores |-> confidence_scores, overall_confidence |-> overall_confidence,
      errors |-> errors, metadata |-> metadata ]

(* Mutant: the failed result hands on what the extraction result holds. *)
extraction_stage_failed_passthrough(extraction_result) ==
    OrchestrationResult(FALSE, extraction_result.data, EmptyDict, Zero,
        <<>>, extraction_result.metadata)

(* The result returned when the extraction stage failed *)
extraction_stage_failed(extraction_result) ==
    OrchestrationResult(FALSE, EmptyDict, EmptyDict, Zero,
        IF TruthyStr(extraction_result.error) THEN <<extraction_result.error>>
        ELSE << <<"Extraction failed">> >>,
        extraction_result.metadata)

get_document_content_for_validation(document_base64, file_type) ==
    LET document_bytes == b64decode(document_base64)
        unavailable == <<"[Document content unavailable for validation]">>
    IN IF document_bytes.tag = "raise" THEN unavailable
       ELSE LET doc_context == DocumentContext(file_type, document_base64, document_bytes.val)
            IN IF file_type \in {PDF, DOCX}
               THEN LET content == parse_document(doc_context, TRUE)
                    IN IF content.tag = "raise" THEN unavailable ELSE content.val
               ELSE <<"[Image document: ">> \o file_type \o <<"]">>

(* Mutant: the validator's verdict does not enter the final success. *)
aggregate_extraction_only(extraction_result, validation_output) ==
    OrchestrationResult(extraction_result.success,
        validation_output.validated_data,
        validation_output.confidence_scores,
        validation_output.overall_confidence,
        (IF TruthyStr(extraction_result.error) THEN <<extraction_result.error>> ELSE <<>>)
            \o validation_output.errors,
        Update(extraction_result.metadata,
               [ validation |->
                   [ overall_confidence |-> validation_output.overall_confidence,
                     field_count |-> Cardinality(DOMAIN validation_output.confidence_scores) ] ]))

(* Mutant: the result carries the extraction result's data and no validation entry. *)
aggregate_extractor_data(extraction_result, validation_output) ==
    OrchestrationResult(extraction_result.success /\ validation_output.success,
        extraction_result.data,
        validation_output.confidence_scores,
        validation_output.overall_confidence,
        (IF TruthyStr(extraction_result.error) THEN <<extraction_result.error>> ELSE <<>>)
            \o validation_output.errors,
        extraction_result.metadata)

(* Stage 3 of orchestrate: aggregation *)
aggregate(extraction_result, validation_output) ==
    LET combined_metadata ==
            Update(extraction_result.metadata,
                   [ validation |->
                       [ overall_confidence |-> validation_output.overall_confidence,
                         field_count |-> Cardinality(DOMAIN validation_output.confidence_scores) ] ])
        final_success == extraction_result.success /\ validation_output.success
        all_errors ==
            (IF TruthyStr(extraction_result.error) THEN <<extraction_result.error>> ELSE <<>>)
            \o validation_output.errors
    IN OrchestrationResult(final_success,
           validation_output.validated_data,
           validation_output.confidence_scores,
           validation_output.overall_confidence,
           all_errors,
           combined_metadata)

----------------------------------------------------------------------------
(* structured_parser.py: StructuredResponseParser.  A reply is a sequence  *)
(* of parts: a brace, a whitespace character, a member of an object or a    *)
(* piece of prose without braces.                                           *)

JsonMember == "\"foo\": \"bar\""

YamlMember == "'foo': 'bar'"

ExponentMember == "\"n\": 1e3"

(* str.find and str.rfind of a one-character string; 0 stands for -1 *)
Find(text, part) ==
    IF \E i \in 1..Len(text) : text[i] = part
    THEN CHOOSE i \in 1..Len(text) : text[i] = part /\ \A j \in 1..(i - 1) : text[j] # part
    ELSE 0

RFind(text, part) ==
    IF \E i \in 1..Len(text) : text[i] = part
    THEN CHOOSE i \in 1..Len(text) : text[i] = part /\ \A j \in (i + 1)..Len(text) : text[j] # part
    ELSE 0

StartsWith(text, prefix) ==
    Len(text) >= Len(prefix) /\ SubSeq(text, 1, Len(prefix)) = prefix

EndsWith(text, suffix) ==
    Len(text) >= Len(suffix) /\ SubSeq(text, Len(text) - Len(suffix) + 1, Len(text)) = suffix

(* The tokens of a text: both readers skip the whitespace between them *)
RECURSIVE Tokens(_)
Tokens(text) ==
    IF text = <<>> THEN <<>>
    ELSE IF Head(text) \in Whitespace THEN Tokens(Tail(text))
    ELSE <<Head(text)>> \o Tokens(Tail(text))

(* json.loads: an object has double-quoted keys; 1e3 is the float 1000.0 *)
JsonLoads(text) ==
    LET tokens == Tokens(text)
    IN IF tokens = <<"{", "}">> THEN Ret(EmptyDict)
       ELSE IF tokens = <<"{", JsonMember, "}">> THEN Ret([foo |-> "bar"])
       ELSE IF tokens = <<"{", ExponentMember, "}">> THEN Ret([n |-> "1000.0"])
       ELSE Raise(PyError("JSONDecodeError", <<"Expecting property name enclosed in double quotes">>))

(* yaml.safe_load: the empty document is None, a flow mapping takes keys in *)
(* either quotes, 1e3 is the string '1e3', a mapping is no key of a mapping *)
YamlLoads(text) ==
    LET tokens == Tokens(text)
    IN IF tokens = <<>> THEN Ret(None)
       ELSE IF tokens = <<"{", "}">> THEN Ret(EmptyDict)
       ELSE IF tokens \in {<<"{", JsonMember, "}">>, <<"{", YamlMember, "}">>}
       THEN Ret([foo |-> "bar"])
       ELSE IF tokens = <<"{", ExponentMember, "}">> THEN Ret([n |-> "1e3"])
       ELSE Raise(PyError("YAMLError", <<"while parsing a flow mapping">>))

StructuredResponseParser(expected_root) == [expected_root |-> expected_root]

(* The while loop of _strip_redundant_wrappers *)
RECURSIVE strip_wrappers_loop(_)
strip_wrappers_loop(text) ==
    IF StartsWith(text, <<"{", "{">>) /\ EndsWith(text, <<"}", "}">>)
    THEN LET inner == Strip(SubSeq(text, 2, Len(text) - 1))
         IN IF ~StartsWith(inner, <<"{">>) \/ ~EndsWith(inner, <<"}">>)
            THEN text
            ELSE strip_wrappers_loop(inner)
    ELSE text

strip_redundant_wrappers(text) == strip_wrappers_loop(Strip(text))

extract_braced_segment(self, response_text) ==
    LET start_idx == Find(response_text, "{")
        end_idx == RFind(response_text, "}")
    IN IF start_idx = 0 \/ end_idx = 0
       THEN Raise(DocumentExtractionError("InvalidExtractionResultError",
                <<"No JSON object found in ", self.expected_root, " response">>))
       ELSE Ret(strip_redundant_wrappers(SubSeq(response_text, start_idx, end_idx)))

loads_json(json_text) ==
    LET loaded == JsonLoads(json_text)
    IN IF loaded.tag = "raise" THEN None ELSE loaded.val

loads_yaml(self, json_text) ==
    LET loaded == YamlLoads(json_text)
    IN IF loaded.tag = "raise"
       THEN Raise(DocumentExtractionError("InvalidExtractionResultError",
                <<"Failed to parse ", self.expected_root, " as JSON or YAML: ">>
                \o Str(loaded.exc)))
       ELSE loaded

(* The isinstance(data, dict) check of parse and what follows it *)
parsed_object(self, data) ==
    IF data.tag = "raise" THEN data
    ELSE IF data.val = None
    THEN Raise(DocumentExtractionError("InvalidExtractionResultError",
             <<"Parsed ", self.expected_root, " is not an object; got ", "NoneType">>))
    ELSE data

(* Mutant: the YAML reader is tried first, the JSON reader second. *)
StructuredResponseParser_parse_yaml_first(self, response_text) ==
    LET json_candidate == extract_braced_segment(self, Strip(response_text))
    IN IF json_candidate.tag = "raise" THEN json_candidate
       ELSE LET data == YamlLoads(json_candidate.val)
            IN parsed_object(self,
                   IF data.tag = "raise" \/ data.val = None
                   THEN Ret(loads_json(json_candidate.val))
                   ELSE data)

StructuredResponseParser_parse(self, response_text) ==
    LET json_candidate == extract_braced_segment(self, Strip(response_text))
    IN IF json_candidate.tag = "raise" THEN json_candidate
       ELSE LET data == loads_json(json_candidate.val)
            IN parsed_object(self,
                   IF data = None THEN loads_yaml(self, json_candidate.val) ELSE Ret(data))

----------------------------------------------------------------------------
(* mcp_server.py: the HTTP surface *)

HTTPException(status_code, detail) == [status_code |-> status_code, detail |-> detail]

(* _http_exception: the metadata is added to the detail when there is any *)
http_exception(status_code, detail, combined_metadata) ==
    IF combined_metadata # None /\ combined_metadata # NoDetails /\ combined_metadata # EmptyDict
    THEN HTTPException(status_code, Update([metadata |-> combined_metadata], detail))
    ELSE HTTPException(status_code, detail)

(* Mutant: the isinstance checks are grouped by family, superclass first. *)
HttpErrorChecks_superclass_first ==
    << [cls |-> "DocumentRoutingError", status_code |-> 400, error |-> "document_routing_failed"],
       [cls |-> "UnsupportedFileTypeError", status_code |-> 400, error |-> "unsupported_file_type"],
       [cls |-> "DocumentParsingError", status_code |-> 400, error |-> "document_parsing_failed"],
       [cls |-> "Base64DecodingError", status_code |-> 400, error |-> "invalid_base64"],
       [cls |-> "ConfigurationError", status_code |-> 500, error |-> "configuration_error"],
       [cls |-> "ExtractionError", status_code |-> 500, error |-> "extraction_failed"],
       [cls |-> "RequiredFieldMissingError", status_code |-> 422, error |-> "required_field_missing"],
       [cls |-> "InvalidExtractionResultError", status_code |-> 422,
        error |-> "invalid_extraction_result"],
       [cls |-> "DocumentIntelligenceNotConfiguredError", status_code |-> 503,
        error |-> "document_intelligence_not_configured"],
       [cls |-> "DocumentIntelligenceError", status_code |-> 502,
        error |-> "document_intelligence_failed"],
       [cls |-> "DocumentExtractionError", status_code |-> 500,
        error |-> "document_extraction_error"] >>

(* The isinstance checks of map_exception_to_http_error, in the order of the code *)
HttpErrorChecks ==
    << [cls |-> "UnsupportedFileTypeError", status_code |-> 400, error |-> "unsupported_file_type"],
       [cls |-> "Base64DecodingError", status_code |-> 400, error |-> "invalid_base64"],
       [cls |-> "DocumentParsingError", status_code |-> 400, error |-> "document_parsing_failed"],
       [cls |-> "RequiredFieldMissingError", status_code |-> 422, error |-> "required_field_missing"],
       [cls |-> "InvalidExtractionResultError", status_code |-> 422,
        error |-> "invalid_extraction_result"],
       [cls |-> "DocumentRoutingError", status_code |-> 400, error |-> "document_routing_failed"],
       [cls |-> "ConfigurationError", status_code |-> 500, error |-> "configuration_error"],
       [cls |-> "DocumentIntelligenceNotConfiguredError", status_code |-> 503,
        error |-> "document_intelligence_not_configured"],
       [cls |-> "DocumentIntelligenceError", status_code |-> 502,
        error |-> "document_intelligence_failed"],
       [cls |-> "ExtractionError", status_code |-> 500, error |-> "extraction_failed"],
       [cls |-> "DocumentExtractionError", status_code |-> 500,
        error |-> "document_extraction_error"] >>

map_exception_to_http_error(exc, metadata) ==
    LET combined_metadata ==
            IF metadata # None /\ metadata # EmptyDict THEN metadata
            ELSE IF IsInstance(exc.cls, "DocumentExtractionError") THEN exc.details
            ELSE None
        matching == { i \in 1..Len(HttpErrorChecks) : IsInstance(exc.cls, HttpErrorChecks[i].cls) }
    IN IF matching = {}
       THEN http_exception(500, [ error |-> "internal_server_error",
                                  message |-> <<"An unexpected error occurred">> ],
                           combined_metadata)
       ELSE LET check == HttpErrorChecks[CHOOSE i \in matching : \A j \in matching : i <= j]
                detail == [error |-> check.error, message |-> Str(exc)]
            IN IF check.error = "unsupported_file_type"
               THEN http_exception(check.status_code,
                        Update(detail, [ file_type |-> exc.details.file_type,
                                         supported_types |-> exc.details.supported_types ]),
                        combined_metadata)
               ELSE IF check.error = "required_field_missing"
               THEN http_exception(check.status_code,
                        Update(detail, [ field_name |-> exc.details.field_name,
                                         field_description |->
                                             Get(exc.details, "field_description", None) ]),
                        combined_metadata)
               ELSE http_exception(check.status_code, detail, combined_metadata)

(* OrchestrationResult.to_dict: errors and metadata only when there are any *)
to_dict(self) ==
    LET result_dict == [ success |-> self.success,
                         extractedData |-> self.extracted_data,
                         confidence |-> self.confidence_scores,
                         overall_confidence |-> self.overall_confidence ]
        with_errors == IF self.errors # <<>>
                       THEN result_dict @@ [errors |-> self.errors]
                       ELSE result_dict
    IN IF self.metadata # EmptyDict
       THEN with_errors @@ [metadata |-> self.metadata]
       ELSE with_errors

(* The response model: the fields that are not given take their defaults *)
ExtractDocumentResponse(fields) ==
    [ success |-> fields.success,
      extractedData |-> fields.extractedData,
      confidence |-> fields.confidence,
      overall_confidence |-> fields.overall_confidence,
      metadata |-> IF "metadata" \in DOMAIN fields THEN fields.metadata ELSE None,
      errors |-> IF "errors" \in DOMAIN fields THEN fields.errors ELSE None ]

(* What the client receives: a status and a body *)
HttpResponse(status_code, body) == [status_code |-> status_code, body |-> body]

(* extract_document_data when orchestrate returns: the result is the body *)
extract_document_data_return(orchestration_result) ==
    HttpResponse(200, ExtractDocumentResponse(to_dict(orchestration_result)))

(* extract_document_data when orchestrate raises: the mapped error *)
extract_document_data_raise(exc) ==
    LET error == map_exception_to_http_error(exc, None)
    IN HttpResponse(error.status_code, [detail |-> error.detail])

----------------------------------------------------------------------------
(* Inputs of the pipeline: settings, requests and outcomes of the backends *)

Endpoint == [url |-> "https://ocr.example"]

Key == [secret |-> "key"]

DocumentIntelligenceConfigs ==
    { None,
      [endpoint |-> Endpoint, key |-> Key, use_managed_identity |-> FALSE],
      [endpoint |-> Endpoint, key |-> None, use_managed_identity |-> FALSE] }

Settings(di_config, density_thr, low_res_thr, min_confidence) ==
    [ azure_document_intelligence |-> di_config,
      routing_thresholds |->
          [ text_density_threshold |-> density_thr,
            low_resolution_threshold |-> low_res_thr,
            use_document_intelligence |->
                [ scanned_document |-> TRUE, low_text_density |-> TRUE,
                  poor_image_quality |-> TRUE ] ],
      min_confidence_threshold |-> min_confidence ]

PipelineSettings ==
    { Settings(di, DefaultTextDensityThreshold, DefaultLowResolutionThreshold,
               DefaultMinConfidenceThreshold) : di \in DocumentIntelligenceConfigs }

ScannedPdf == Bytes("pdf", 1, 0, FALSE, FALSE, 0, 0)

ScannedCoverPdf == Bytes("pdf", MaxPages, 0, TRUE, FALSE, 0, 0)

DensePdf == Bytes("pdf", 1, MaxDensity, FALSE, FALSE, 0, 0)

Image == Bytes("image", 0, 0, FALSE, FALSE, 1000, 1000)

PipelineDocuments ==
    { [file_type |-> PDF, document_base64 |-> p] :
        p \in { Payload("invalid", EmptyBytes), Payload("empty", EmptyBytes),
                Payload("valid", GarbageBytes), Payload("valid", ScannedPdf),
                Payload("valid", ScannedCoverPdf), Payload("valid", DensePdf) } }
    \cup
    { [file_type |-> <<"D", "o", "c", "x">>, document_base64 |-> Payload("valid", b)] :
        b \in { Bytes("docx", 0, 0, FALSE, TRUE, 0, 0), Bytes("docx", 0, 0, FALSE, FALSE, 0, 0) } }
    \cup
    { [file_type |-> PNG, document_base64 |-> Payload("valid", b)] : b \in {Image, GarbageBytes} }
    \cup
    { [file_type |-> <<"t", "x", "t">>, document_base64 |-> Payload("valid", DensePdf)] }

(* The i-th data element of a request is named FieldNames[i]. *)
FieldNames == <<"invoiceNumber", "total", "date", "vendor">>

Fields == { FieldNames[i] : i \in 1..MaxElements }

DataElement(name, required) ==
    [name |-> name, description |-> "the " \o name, format |-> "string", required |-> required]

DataElementLists ==
    UNION { { [i \in 1..n |-> DataElement(FieldNames[i], req[i])] : req \in [1..n -> BOOLEAN] } :
              n \in 0..MaxElements }

PipelineRequests ==
    { [ file_type |-> d.file_type, document_base64 |-> d.document_base64,
        data_elements |-> e ] : d \in PipelineDocuments, e \in DataElementLists }

BackendFailure == Raise(PyError("BackendError", <<"request timed out">>))

Value == [value |-> "text"]

(* What a model answers to an extraction prompt: per field of the reply,    *)
(* a value or null; the reply may leave fields out.                         *)
ExtractionObjects == UNION { [S -> {Value, None}] : S \in SUBSET Fields }

ExtractionOutcomes ==
    { BackendFailure,
      Ret([json |-> "no_object", data |-> EmptyDict]),
      Ret([json |-> "malformed", data |-> EmptyDict]) }
    \cup { Ret([json |-> "object", data |-> d]) : d \in ExtractionObjects }

OcrOutcomes ==
    { BackendFailure, Ret([pages_with_lines |-> 0]), Ret([pages_with_lines |-> 1]) }

ConfidenceSamples == {40, 95}

FieldVerdicts == [is_valid : BOOLEAN, confidence : ConfidenceSamples]

ValidationObjects == UNION { [S -> FieldVerdicts] : S \in SUBSET Fields }

ValidationOutcomes ==
    { BackendFailure,
      Ret([json |-> "no_object", data |-> EmptyDict]),
      Ret([json |-> "malformed", data |-> EmptyDict]) }
    \cup { Ret([json |-> "object", data |-> d]) : d \in ValidationObjects }

----------------------------------------------------------------------------
(* The pipeline: one request through orchestrate.  pc is the stage of the   *)
(* request; inside a stage, pending.await names the backend the code waits  *)
(* for, or "return" when the agent's result is on its way to orchestrate.   *)

Init ==
    /\ settings \in PipelineSettings
    /\ router = ExtractorAgent(settings).router
    /\ request \in PipelineRequests
    /\ pc = "Start"
    /\ context = None
    /\ routing = None
    /\ pending = None
    /\ reply = None
    /\ extraction = None
    /\ validation = None
    /\ result = None
    /\ http_response = None
    /\ calls = NoCalls
    /\ replies = <<>>
    /\ suspended = None

(* What the code holds while it waits for a backend: the text sent to the   *)
(* text model, the image data sent to the vision model, the document sent   *)
(* to OCR, or the validator's input.                                        *)
Awaiting(call, validator_input) ==
    [ await |-> call.backend,
      text |-> IF call.backend = "text_model" THEN call.input ELSE NoneStr,
      image_data |-> IF call.backend = "vision_model" THEN call.input ELSE None,
      document |-> IF call.backend = "ocr" THEN call.input ELSE None,
      validator_input |-> validator_input,
      out |-> None ]

Returning(validator_input, out) ==
    [ await |-> "return", text |-> NoneStr, image_data |-> None, document |-> None,
      validator_input |-> validator_input, out |-> out ]

(* orchestrate calls extract_from_document, which decodes the payload,     *)
(* routes the document and runs the selected strategy to its first backend *)
(* call, or fails on the way.                                               *)
StartExtraction ==
    /\ pc = "Start"
    /\ \E doc_context \in { decode_document(request.document_base64, request.file_type) } :
         IF doc_context.tag = "raise"
         THEN /\ context' = None
              /\ routing' = None
              /\ pending' = Returning(None, extraction_failed(doc_context.exc))
              /\ calls' = [calls EXCEPT !.extract = @ + 1]
         ELSE \E routing_decision \in { analyze_and_route(router, doc_context.val) } :
              \E next \in { route_to_strategy(ExtractorAgent(settings), doc_context.val,
                                 routing_decision, request.data_elements) } :
                 /\ context' = doc_context.val
                 /\ routing' = [ call |-> "analyze_and_route", doc_type |-> "",
                                 metadata |-> EmptyDict, out |-> routing_decision ]
                 /\ IF next.tag = "call"
                    THEN /\ pending' = Awaiting(next, None)
                         /\ calls' = [calls EXCEPT !.extract = @ + 1, ![next.backend] = @ + 1]
                    ELSE /\ pending' = Returning(None, extraction_failed(next.exc))
                         /\ calls' = [calls EXCEPT !.extract = @ + 1]
    /\ pc' = "Extracting"
    /\ UNCHANGED <<suspended, replies, http_response, settings, router, request, reply, extraction, validation, result>>

(* The extraction result for the payload (or exception) of Extractor.extract *)
ExtractionOutcome(payload) ==
    CHOOSE out \in { extract_from_document_return(context, routing.out.val, checked) :
                         checked \in { extract_return(payload, request.data_elements) } } : TRUE

(* The OCR service answers: extract_with_document_intelligence goes on to   *)
(* the text model, or raises.                                               *)
OcrReply ==
    /\ pc = "Extracting"
    /\ pending.await = "ocr"
    /\ \E analysis \in OcrOutcomes :
       /\ reply' = analysis
       /\ replies' = Append(replies, analysis)
       /\ \E next \in { ocr_text_content(analysis) } :
            IF next.tag = "call"
            THEN /\ pending' = Awaiting(next, None)
                 /\ calls' = [calls EXCEPT ![next.backend] = @ + 1]
            ELSE /\ \E out \in { ExtractionOutcome(next) } : pending' = Returning(None, out)
                 /\ calls' = calls
    /\ UNCHANGED <<suspended, http_response, settings, router, request, pc, context, routing, extraction,
                   validation, result>>

(* The text model answers: extract_from_text, the required-field check and  *)
(* the rest of extract_from_document run.                                   *)
TextModelReply ==
    /\ pc = "Extracting"
    /\ pending.await = "text_model"
    /\ \E response \in ExtractionOutcomes :
       /\ reply' = response
       /\ replies' = Append(replies, response)
       /\ \E payload \in { extract_from_text(pending.text, request.data_elements, response) } :
          \E out \in { ExtractionOutcome(payload) } :
            pending' = Returning(None, out)
    /\ UNCHANGED <<suspended, http_response, settings, router, request, pc, context, routing, extraction,
                   validation, result, calls>>

(* The vision model answers. *)
VisionModelReply ==
    /\ pc = "Extracting"
    /\ pending.await = "vision_model"
    /\ \E response \in ExtractionOutcomes :
       /\ reply' = response
       /\ replies' = Append(replies, response)
       /\ \E payload \in { extract_from_image(pending.image_data, request.data_elements, response) } :
          \E out \in { ExtractionOutcome(payload) } :
            pending' = Returning(None, out)
    /\ UNCHANGED <<suspended, http_response, settings, router, request, pc, context, routing, extraction,
                   validation, result, calls>>

(* Mutant: a failed extraction is run again. *)
ExtractionReturns_retry ==
    /\ pc = "Extracting"
    /\ pending.await = "return"
    /\ pending.out.tag = "ret"
    /\ extraction' = pending.out.val
    /\ pc' = IF pending.out.val.success THEN "Extracted" ELSE "Start"
    /\ pending' = None
    /\ reply' = None
    /\ UNCHANGED <<suspended, replies, http_response, settings, router, request, context, routing, validation, result, calls>>

(* extract_from_document returns to orchestrate, which checks the result.   *)
ExtractionReturns ==
    /\ pc = "Extracting"
    /\ pending.await = "return"
    /\ IF pending.out.tag = "raise"
       THEN /\ pc' = "Raised"
            /\ http_response' = extract_document_data_raise(pending.out.exc)
            /\ UNCHANGED <<extraction, result>>
       ELSE /\ extraction' = pending.out.val
            /\ IF ~pending.out.val.success
               THEN /\ \E failed \in { extraction_stage_failed(pending.out.val) } :
                         /\ result' = failed
                         /\ http_response' = extract_document_data_return(failed)
                    /\ pc' = "ExtractionFailed"
               ELSE /\ result' = result
                    /\ http_response' = http_response
                    /\ pc' = "Extracted"
    /\ pending' = None
    /\ reply' = None
    /\ UNCHANGED <<suspended, replies, settings, router, request, context, routing, validation, calls>>

(* orchestrate hands over to the validator agent, which runs to the call of *)
(* the validation model or to its return.                                   *)
StartValidation ==
    /\ pc = "Extracted"
    /\ \E document_content \in
             { IF TruthyStr(extraction.document_content) THEN extraction.document_content
               ELSE get_document_content_for_validation(request.document_base64,
                                                        request.file_type) } :
       \E validator_input \in
             { ValidatorAgentInput(document_content, request.data_elements,
                                   extraction.data, extraction.metadata) } :
       \E started \in { validate_start(validator_input.data_elements) } :
         IF started.tag = "call"
         THEN /\ pending' = Awaiting(started, validator_input)
              /\ calls' = [calls EXCEPT !.validate = @ + 1, ![started.backend] = @ + 1]
         ELSE /\ \E out \in { ValidatorAgent_validate(validator_input, started) } :
                    pending' = Returning(validator_input, out)
              /\ calls' = [calls EXCEPT !.validate = @ + 1]
    /\ pc' = "Validating"
    /\ UNCHANGED <<suspended, replies, http_response, settings, router, request, context, routing, reply, extraction,
                   validation, result>>

(* The validation model answers: the rest of Validator.validate and of      *)
(* ValidatorAgent.validate run.                                             *)
ValidationModelReply ==
    /\ pc = "Validating"
    /\ pending.await = "validation_model"
    /\ \E response \in ValidationOutcomes :
       /\ reply' = response
       /\ replies' = Append(replies, response)
       /\ \E validation_result \in
             { validate_return(Validator(settings), pending.validator_input.data_elements,
                               pending.validator_input.extracted_data, response) } :
          \E out \in { ValidatorAgent_validate(pending.validator_input, validation_result) } :
            pending' = Returning(pending.validator_input, out)
    /\ UNCHANGED <<suspended, http_response, settings, router, request, pc, context, routing, extraction,
                   validation, result, calls>>

(* ValidatorAgent.validate returns to orchestrate, which aggregates.        *)
Aggregate ==
    /\ pc = "Validating"
    /\ pending.await = "return"
    /\ IF pending.out.tag = "raise"
       THEN /\ pc' = "Raised"
            /\ http_response' = extract_document_data_raise(pending.out.exc)
            /\ UNCHANGED <<validation, result>>
       ELSE /\ validation' = pending.out.val
            /\ \E aggregated \in { aggregate(extraction, pending.out.val) } :
                 /\ result' = aggregated
                 /\ http_response' = extract_document_data_return(aggregated)
                 /\ pc' = IF aggregated.success THEN "Validated" ELSE "ValidationFailed"
    /\ pending' = None
    /\ reply' = None
    /\ UNCHANGED <<suspended, replies, settings, router, request, context, routing, extraction, calls>>

Next ==
    \/ StartExtraction
    \/ OcrReply
    \/ TextModelReply
    \/ VisionModelReply
    \/ ExtractionReturns
    \/ StartValidation
    \/ ValidationModelReply
    \/ Aggregate

Spec == Init /\ [][Next]_vars

(* Every backend call returns or raises, and the code between calls runs on. *)
FairSpec == Spec /\ WF_vars(Next)

----------------------------------------------------------------------------
(* Two requests on the one orchestrator.  extract_document_data is a       *)
(* coroutine: the event loop runs a request up to an await of a backend    *)
(* and may then resume the other one.  What a request holds lives in the   *)
(* locals of its coroutines, its frame; the orchestrator, the agents, the  *)
(* router and the settings are shared, and no method assigns to them       *)
(* after construction.                                                      *)

Frame ==
    [ request |-> request, pc |-> pc, context |-> context, routing |-> routing,
      pending |-> pending, reply |-> reply, extraction |-> extraction,
      validation |-> validation, result |-> result, http_response |-> http_response,
      calls |-> calls, replies |-> replies ]

NewFrame(req) ==
    [ request |-> req, pc |-> "Start", context |-> None, routing |-> None,
      pending |-> None, reply |-> None, extraction |-> None,
      validation |-> None, result |-> None, http_response |-> None,
      calls |-> NoCalls, replies |-> <<>> ]

Returned == pc \in {"ExtractionFailed", "ValidationFailed", "Validated", "Raised"}

(* The running request is at an await of a backend, not yet started, or done *)
AtAwait == pc = "Start" \/ Returned \/ (pending # None /\ pending.await # "return")

(* Mutant: the routing decision is kept on the shared agent, not in the frame. *)
Switch_shared_routing ==
    /\ suspended # None
    /\ AtAwait
    /\ suspended' = IF Returned THEN None ELSE [Frame EXCEPT !.routing = None]
    /\ request' = suspended.request
    /\ pc' = suspended.pc
    /\ context' = suspended.context
    /\ routing' = routing
    /\ pending' = suspended.pending
    /\ reply' = suspended.reply
    /\ extraction' = suspended.extraction
    /\ validation' = suspended.validation
    /\ result' = suspended.result
    /\ http_response' = suspended.http_response
    /\ calls' = suspended.calls
    /\ replies' = suspended.replies
    /\ UNCHANGED <<settings, router>>

(* The event loop resumes the other request; the frame of a request that   *)
(* has returned is gone.                                                    *)
Switch ==
    /\ suspended # None
    /\ AtAwait
    /\ suspended' = IF Returned THEN None ELSE Frame
    /\ request' = suspended.request
    /\ pc' = suspended.pc
    /\ context' = suspended.context
    /\ routing' = suspended.routing
    /\ pending' = suspended.pending
    /\ reply' = suspended.reply
    /\ extraction' = suspended.extraction
    /\ validation' = suspended.validation
    /\ result' = suspended.result
    /\ http_response' = suspended.http_response
    /\ calls' = suspended.calls
    /\ replies' = suspended.replies
    /\ UNCHANGED <<settings, router>>

(* A scanned PDF for two fields and an image for one *)
ConcurrentRequests ==
    { [ file_type |-> PDF, document_base64 |-> Payload("valid", ScannedPdf),
        data_elements |-> << DataElement(FieldNames[1], TRUE), DataElement(FieldNames[2], FALSE) >> ],
      [ file_type |-> PNG, document_base64 |-> Payload("valid", Image),
        data_elements |-> << DataElement(FieldNames[1], TRUE) >> ] }

ConcurrentInit ==
    /\ settings = Settings([endpoint |-> Endpoint, key |-> Key, use_managed_identity |-> FALSE],
                           DefaultTextDensityThreshold, DefaultLowResolutionThreshold,
                           DefaultMinConfidenceThreshold)
    /\ router = ExtractorAgent(settings).router
    /\ request \in ConcurrentRequests
    /\ pc = "Start"
    /\ context = None
    /\ routing = None
    /\ pending = None
    /\ reply = None
    /\ extraction = None
    /\ validation = None
    /\ result = None
    /\ http_response = None
    /\ calls = NoCalls
    /\ replies = <<>>
    /\ suspended \in { NewFrame(req) : req \in ConcurrentRequests }

ConcurrentNext ==
    \/ StartExtraction
    \/ OcrReply
    \/ TextModelReply
    \/ VisionModelReply
    \/ ExtractionReturns
    \/ StartValidation
    \/ ValidationModelReply
    \/ Aggregate
    \/ Switch

ConcurrentSpec == ConcurrentInit /\ [][ConcurrentNext]_vars

(* What the client of a request gets *)
Answer(orchestration_result, response) ==
    [result |-> orchestration_result, http_response |-> response]

(* orchestrate from the extractor agent's outcome on, given the answers of  *)
(* the backends it is yet to call                                           *)
orchestrate_after_extraction(s, req, outcome, answers) ==
    IF outcome.tag = "raise"
    THEN Answer(None, extract_document_data_raise(outcome.exc))
    ELSE IF ~outcome.val.success
    THEN LET failed == extraction_stage_failed(outcome.val)
         IN Answer(failed, extract_document_data_return(failed))
    ELSE LET document_content ==
                 IF TruthyStr(outcome.val.document_content)
                 THEN outcome.val.document_content
                 ELSE get_document_content_for_validation(req.document_base64, req.file_type)
             validator_input ==
                 ValidatorAgentInput(document_content, req.data_elements,
                                     outcome.val.data, outcome.val.metadata)
             started == validate_start(validator_input.data_elements)
             validation_result ==
                 IF started.tag = "call"
                 THEN validate_return(Validator(s), validator_input.data_elements,
                                      validator_input.extracted_data, answers[1])
                 ELSE started
             validation_output == ValidatorAgent_validate(validator_input, validation_result)
         IN IF validation_output.tag = "raise"
            THEN Answer(None, extract_document_data_raise(validation_output.exc))
            ELSE LET aggregated == aggregate(outcome.val, validation_output.val)
                 IN Answer(aggregated, extract_document_data_return(aggregated))

(* orchestrate for one request on its own, given the answers of the         *)
(* backends in the order it calls them                                      *)
orchestrate(s, req, answers) ==
    LET agent == ExtractorAgent(s)
        doc_context == decode_document(req.document_base64, req.file_type)
    IN IF doc_context.tag = "raise"
       THEN orchestrate_after_extraction(s, req, extraction_failed(doc_context.exc), answers)
       ELSE LET routing_decision == analyze_and_route(agent.router, doc_context.val)
                started == route_to_strategy(agent, doc_context.val, routing_decision,
                                             req.data_elements)
            IN IF started.tag # "call"
               THEN orchestrate_after_extraction(s, req, extraction_failed(started.exc), answers)
               ELSE LET by_ocr == started.backend = "ocr"
                        read == IF by_ocr THEN ocr_text_content(answers[1]) ELSE started
                        to_model == IF by_ocr THEN Tail(answers) ELSE answers
                        payload ==
                            IF read.tag # "call" THEN read
                            ELSE IF read.backend = "text_model"
                            THEN extract_from_text(read.input, req.data_elements, to_model[1])
                            ELSE extract_from_image(read.input, req.data_elements, to_model[1])
                        to_validator == IF read.tag = "call" THEN Tail(to_model) ELSE to_model
                    IN orchestrate_after_extraction(s, req,
                           extract_from_document_return(doc_context.val, routing_decision.val,
                               extract_return(payload, req.data_elements)),
                           to_validator)

----------------------------------------------------------------------------
(* The components on their own: one call of one method, on every input,    *)
(* or one object built and then read.  request holds the call and its      *)
(* arguments, reply the answer of the backend the call reached, result     *)
(* what the call returned or raised.                                        *)

ComponentInit ==
    /\ settings = None
    /\ router = None
    /\ request = None
    /\ pc = "component"
    /\ context = None
    /\ routing = None
    /\ pending = None
    /\ reply = None
    /\ extraction = None
    /\ validation = None
    /\ result = None
    /\ http_response = None
    /\ calls = NoCalls
    /\ replies = <<>>
    /\ suspended = None

MinConfidenceThresholds == {DefaultMinConfidenceThreshold, 95}

(* Data element lists, one of them with an element that has no 'required' key *)
ComponentElementLists ==
    DataElementLists \cup
    { << [name |-> FieldNames[1], description |-> "the " \o FieldNames[1]] >> }

(* Replies of the validation model, some of them with entries that lack a  *)
(* 'confidence' or an 'is_valid' key, or that score a field 1.5.            *)
ComponentValidationOutcomes ==
    ValidationOutcomes \cup
    { Ret([json |-> "object", data |-> d]) :
        d \in UNION { [S -> { [is_valid |-> TRUE], [confidence |-> 95],
                              [is_valid |-> TRUE, confidence |-> 150] }] :
                        S \in (SUBSET Fields) \ {{}} } }

(* Validator.validate *)
ValidateCall ==
    /\ pc = "component"
    /\ \E min_confidence \in MinConfidenceThresholds, data_elements \in ComponentElementLists,
          extracted_data \in {EmptyDict, [invoiceNumber |-> Value]},
          response \in ComponentValidationOutcomes :
       \E self \in { Validator(Settings(None, DefaultTextDensityThreshold,
                                        DefaultLowResolutionThreshold, min_confidence)) } :
       \E started \in { validate_start(data_elements) } :
         /\ settings' = self.settings
         /\ request' = [ call |-> "Validator.validate", data_elements |-> data_elements,
                         extracted_data |-> extracted_data ]
         /\ IF started.tag = "call"
            THEN /\ reply' = response
                 /\ result' = validate_return(self, data_elements, extracted_data, response)
                 /\ calls' = [calls EXCEPT ![started.backend] = @ + 1]
            ELSE /\ reply' = None
                 /\ result' = started
                 /\ calls' = calls
    /\ pc' = "returned"
    /\ UNCHANGED <<suspended, replies, http_response, router, context, routing, pending, extraction, validation>>

(* The arguments of Extractor.extract: every combination of a text (none,  *)
(* empty or not), image data, a document payload (none, empty, valid       *)
(* base64 or not) and the OCR flag.                                         *)
ExtractArguments ==
    [ text : {NoneStr, <<>>, <<"Invoice INV-1">>},
      image_data : { None, [ base64_data |-> Payload("valid", ScannedPdf),
                             media_type |-> <<"application/pdf">>,
                             document_type |-> "pdf" ] },
      document_base64 : { None, Payload("empty", EmptyBytes), Payload("invalid", EmptyBytes),
                          Payload("valid", ScannedPdf) },
      use_document_intelligence : BOOLEAN ]

(* Extractor.extract: the selected strategy with the answers of its         *)
(* backends, then the check of the required fields.  extraction holds what  *)
(* the strategy returned or raised.                                         *)
ExtractCall ==
    /\ pc = "component"
    /\ \E s \in PipelineSettings, args \in ExtractArguments,
          data_elements \in ComponentElementLists,
          analysis \in OcrOutcomes, response \in ExtractionOutcomes :
       \E started \in { extract(Extractor(s), args.text, data_elements, args.image_data,
                               args.document_base64, args.use_document_intelligence) } :
       \E read \in { IF started.tag = "call" /\ started.backend = "ocr"
                     THEN ocr_text_content(analysis) ELSE started } :
       \E payload \in { IF read.tag # "call" THEN read
                        ELSE IF read.backend = "text_model"
                        THEN extract_from_text(read.input, data_elements, response)
                        ELSE extract_from_image(read.input, data_elements, response) } :
         /\ settings' = s
         /\ request' = [ call |-> "Extractor.extract", data_elements |-> data_elements,
                         arguments |-> args ]
         /\ reply' = IF read.tag = "call" THEN response
                     ELSE IF started.tag = "call" THEN analysis ELSE None
         /\ calls' = [ calls EXCEPT
                         !.ocr = IF started.tag = "call" /\ started.backend = "ocr"
                                 THEN 1 ELSE 0,
                         !.text_model = IF read.tag = "call" /\ read.backend = "text_model"
                                        THEN 1 ELSE 0,
                         !.vision_model = IF read.tag = "call" /\ read.backend = "vision_model"
                                          THEN 1 ELSE 0 ]
         /\ extraction' = payload
         /\ result' = extract_return(payload, data_elements)
    /\ pc' = "returned"
    /\ UNCHANGED <<suspended, replies, http_response, router, context, routing, pending, validation>>

(* One exception of every class, the domain ones with and without details *)
Exceptions ==
    { DocumentExtractionError(cls, <<"failed: ", cls>>) :
        cls \in { c \in DOMAIN ExcParent : IsInstance(c, "DocumentExtractionError") }
                 \ {"UnsupportedFileTypeError", "RequiredFieldMissingError"} }
    \cup { UnsupportedFileTypeError(<<"t", "x", "t">>, <<PDF, DOCX>>),
           RequiredFieldMissingError("invoiceNumber", "the invoiceNumber"),
           RequiredFieldMissingError("total", None) }
    \cup { PyError(cls, <<"secret of ", cls>>) :
             cls \in { c \in DOMAIN ExcParent : ~IsInstance(c, "DocumentExtractionError") } }

(* map_exception_to_http_error *)
MapExceptionCall ==
    /\ pc = "component"
    /\ \E exc \in Exceptions, metadata \in {None, [routing |-> "vision"]} :
         /\ request' = [ call |-> "map_exception_to_http_error", exc |-> exc,
                         metadata |-> metadata ]
         /\ result' = Ret(map_exception_to_http_error(exc, metadata))
    /\ pc' = "returned"
    /\ UNCHANGED <<suspended, replies, http_response, settings, router, context, routing, pending, reply, extraction,
                   validation, calls>>

(* ExtractionResultParser.parse on the text of a reply: the span from the   *)
(* first '{' to the last '}' goes to json.loads and to nothing else.        *)
ExtractionResultParser_parse_text(result_text) ==
    LET stripped == Strip(result_text)
        start_idx == Find(stripped, "{")
        end_idx == RFind(stripped, "}")
    IN IF start_idx = 0 \/ end_idx = 0
       THEN Raise(DocumentExtractionError("InvalidExtractionResultError",
                <<"No JSON object found in response">>))
       ELSE LET loaded == JsonLoads(SubSeq(stripped, start_idx, end_idx))
            IN IF loaded.tag = "raise"
               THEN Raise(DocumentExtractionError("InvalidExtractionResultError",
                        <<"Failed to parse extraction result as JSON: ">> \o Str(loaded.exc)))
               ELSE loaded

MaxParts == 5

ReplyParts == {"{", "}", " ", JsonMember, YamlMember, ExponentMember}

(* Replies of the model: prose or a code fence around max_parts parts at most *)
ReplyTexts(max_parts) ==
    { prefix \o core \o suffix :
        prefix \in { <<>>, <<"LLM output:", "\n", "~~~json", "\n">>,
                     <<"Here is data: [1, 2, 3]">> },
        core \in UNION { [1..n -> ReplyParts] : n \in 0..max_parts },
        suffix \in { <<>>, <<"\n", "~~~">> } }

(* StructuredResponseParser.parse as the Validator's parser calls it, and  *)
(* ExtractionResultParser.parse on the same reply                           *)
ParseCall ==
    /\ pc = "component"
    /\ \E response_text \in ReplyTexts(MaxParts) :
         /\ request' = [ call |-> "StructuredResponseParser.parse",
                         response_text |-> response_text ]
         /\ result' = StructuredResponseParser_parse(
                          StructuredResponseParser("validation response"), response_text)
         /\ extraction' = ExtractionResultParser_parse_text(response_text)
    /\ pc' = "returned"
    /\ UNCHANGED <<suspended, replies, http_response, settings, router, context, routing, pending, reply,
                   validation, calls>>

MaxReads == 3

(* DocumentContext(file_type, base64_data, raw_bytes) *)
ConstructCall ==
    /\ pc = "component"
    /\ \E file_type \in {PDF, <<" ", "P", "d", "f", "\n">>},
          base64_data \in { Payload("valid", ScannedPdf), Payload("empty", EmptyBytes),
                            Payload("invalid", EmptyBytes) } :
       \E bytes \in { None } \cup
                     { b \in {base64_data.bytes} : base64_data.text # "invalid" } :
         /\ context' = DocumentContext(file_type, base64_data, bytes)
         /\ request' = [ call |-> "DocumentContext", file_type |-> file_type,
                         base64_data |-> base64_data, raw_bytes |-> bytes,
                         reads |-> 0, decodes |-> 0 ]
    /\ pc' = "constructed"
    /\ UNCHANGED <<suspended, replies, http_response, settings, router, routing, pending, reply, extraction,
                   validation, result, calls>>

(* A read of the raw_bytes property; request counts the reads and the calls *)
(* of b64decode.                                                            *)
ReadRawBytes ==
    /\ pc = "constructed"
    /\ request.reads < MaxReads
    /\ result' = raw_bytes(context)
    /\ context' = raw_bytes_cached(context)
    /\ request' = [request EXCEPT !.reads = @ + 1,
                                  !.decodes = IF context.raw_bytes = None THEN @ + 1 ELSE @]
    /\ UNCHANGED <<suspended, replies, http_response, settings, router, pc, routing, pending, reply, extraction,
                   validation, calls>>

ComponentNext ==
    \/ ValidateCall
    \/ ExtractCall
    \/ MapExceptionCall
    \/ ParseCall
    \/ ConstructCall
    \/ ReadRawBytes

ComponentSpec == ComponentInit /\ [][ComponentNext]_vars

----------------------------------------------------------------------------
(* Claims about the pipeline (checked under Spec; C2 under FairSpec) *)

Terminal == {"ExtractionFailed", "ValidationFailed", "Validated"}

AfterValidation == {"ValidationFailed", "Validated"}

Contains(list, item) == \E i \in 1..Len(list) : list[i] = item

(* C1: when the extractor's result has success = false, orchestrate returns a
   result with success = false, empty extracted_data and confidence_scores,
   overall_confidence 0.0 and an errors list that contains the extraction error
   message, and the validator agent (and its model) is never invoked. *)
C1_ExtractionFailureShortCircuits ==
    (extraction # None /\ ~extraction.success) =>
        /\ pc = "ExtractionFailed"
        /\ result # None
        /\ result.success = FALSE
        /\ result.extracted_data = EmptyDict
        /\ result.confidence_scores = EmptyDict
        /\ result.overall_confidence = Zero
        /\ extraction.error # NoneStr
        /\ Contains(result.errors, extraction.error)
        /\ validation = None
        /\ calls.validate = 0
        /\ calls.validation_model = 0

C1_Witness ==
    /\ pc = "ExtractionFailed"
    /\ calls.vision_model = 1
    /\ calls.validate = 0
    /\ result.errors = << <<"Unexpected error: ", "Required field '", "invoiceNumber",
                            "' not found in document">> >>

StageOrder ==
    { <<"Start", "Extracting">>,
      <<"Extracting", "ExtractionFailed">>, <<"Extracting", "Extracted">>,
      <<"Extracted", "Validating">>,
      <<"Validating", "ValidationFailed">>, <<"Validating", "Validated">> }

(* C2: every request moves Start -> Extracting -> {ExtractionFailed | Extracted
   -> Validating -> {ValidationFailed | Validated}}; a result exists exactly in
   the three terminal states, which are never left; and whatever the backends
   answer or raise, the request eventually is in a terminal state with an
   OrchestrationResult. *)
C2_StateMachineTerminates ==
    /\ [][pc' # pc => (<<pc, pc'>> \in StageOrder /\ pc \notin Terminal)]_vars
    /\ []((result # None) <=> (pc \in Terminal))
    /\ [](pc = "ExtractionFailed" => ~extraction.success /\ ~result.success)
    /\ [](pc = "ValidationFailed" => extraction.success /\ ~result.success)
    /\ [](pc = "Validated" => extraction.success /\ result.success)
    /\ <>(pc \in Terminal /\ result # None)

C2_Witness ==
    /\ pc = "ValidationFailed"
    /\ calls.ocr = 1
    /\ calls.text_model = 1
    /\ result.errors = << <<"Validation failed: ", "Validation failed: ", "request timed out">> >>

Backends == {"text_model", "vision_model", "ocr", "validation_model"}

(* C3: within one request the extraction stage is run exactly once; the
   validation stage is run at most once and only after the extraction stage has
   returned success; and no backend (text model, vision model, OCR, validation
   model) is called more than once, whatever failed. *)
C3_StagesRunOnceInOrder ==
    /\ calls.extract = IF pc = "Start" THEN 0 ELSE 1
    /\ calls.validate <= 1
    /\ (calls.validate = 1) <=> (pc \in {"Validating"} \cup AfterValidation)
    /\ (calls.validate = 1) => (extraction # None /\ extraction.success)
    /\ \A b \in Backends : calls[b] <= 1
    /\ (calls.validation_model = 1) => (calls.validate = 1)
    /\ (pc = "Start") => \A b \in Backends : calls[b] = 0

C3_Witness ==
    /\ pc = "ValidationFailed"
    /\ calls = [extract |-> 1, validate |-> 1, text_model |-> 1, vision_model |-> 0,
                ocr |-> 1, validation_model |-> 1]
    /\ validation.errors # <<>>

(* C4: when the extraction stage succeeded, the result of orchestrate has
   success = extraction.success AND validation.success, errors = the extraction
   error (if any) followed by the validation errors, extracted_data,
   confidence_scores and overall_confidence equal to the validator output's,
   and metadata = the extraction metadata plus a 'validation' entry holding the
   validator's overall_confidence and the number of scored fields. *)
C4_AggregationOfBothStages ==
    (pc \in AfterValidation) =>
        /\ result.success = (extraction.success /\ validation.success)
        /\ result.errors =
               (IF extraction.error # NoneStr THEN <<extraction.error>> ELSE <<>>)
               \o validation.errors
        /\ result.extracted_data = validation.validated_data
        /\ result.confidence_scores = validation.confidence_scores
        /\ result.overall_confidence = validation.overall_confidence
        /\ DOMAIN result.metadata = (DOMAIN extraction.metadata) \cup {"validation"}
        /\ \A k \in (DOMAIN extraction.metadata) \ {"validation"} :
               result.metadata[k] = extraction.metadata[k]
        /\ result.metadata.validation =
               [ overall_confidence |-> validation.overall_confidence,
                 field_count |-> Cardinality(DOMAIN validation.confidence_scores) ]

C4_Witness ==
    /\ pc = "Validated"
    /\ result.success
    /\ result.errors = <<>>
    /\ result.overall_confidence = [num |-> 135, den |-> 2]
    /\ result.metadata.validation.field_count = 2
    /\ result.metadata.extraction_method = "llm_text"
    /\ Len(request.data_elements) = 2
    /\ \E i \in 1..2 : request.data_elements[i].required

RequiredBelowThreshold(element) ==
    /\ element.required
    /\ element.name \in DOMAIN validation.confidence_scores
    /\ validation.confidence_scores[element.name] < settings.min_confidence_threshold

(* C5: when extraction succeeded and the validator scored a required field
   below the confidence threshold, orchestrate returns success = false,
   extracted_data equal to the extractor's output, overall_confidence equal to
   the validator's value, and errors equal to the validator's error list, which
   holds the threshold-violation message of that field. *)
C5_ThresholdViolationKeepsData ==
    \A i \in 1..Len(request.data_elements) :
        (pc \in AfterValidation /\ RequiredBelowThreshold(request.data_elements[i])) =>
            /\ extraction.success
            /\ result.success = FALSE
            /\ result.extracted_data = extraction.data
            /\ result.overall_confidence = validation.overall_confidence
            /\ result.errors = validation.errors
            /\ Contains(result.errors,
                   <<"Required field '", request.data_elements[i].name, "' confidence ">>
                   \o Format2f(validation.confidence_scores[request.data_elements[i].name])
                   \o <<" below threshold ">> \o Format2f(settings.min_confidence_threshold))

C5_Witness ==
    /\ pc = "ValidationFailed"
    /\ Len(request.data_elements) = 1
    /\ result.extracted_data = [invoiceNumber |-> Value]
    /\ result.overall_confidence = [num |-> 40, den |-> 1]
    /\ result.errors = << <<"Required field '", "invoiceNumber", "' confidence ",
                            "0", ".", "4", "0", " below threshold ", "0", ".", "8", "0">> >>

----------------------------------------------------------------------------
(* Claims about the router (checked under RouterSpec) *)

SupportedFileTypes == {PDF, DOCX, PNG, JPG, JPEG}

ImageFileTypes == {PNG, JPG, JPEG}

(* Lexicographic order of lower-case strings, as sorted() orders them. *)
Alphabet == <<"c", "d", "e", "f", "g", "j", "n", "o", "p", "x">>

Rank(c) == CHOOSE i \in 1..Len(Alphabet) : Alphabet[i] = c

RECURSIVE StrLess(_, _)
StrLess(a, b) ==
    IF b = <<>> THEN FALSE
    ELSE IF a = <<>> THEN TRUE
    ELSE IF Head(a) = Head(b) THEN StrLess(Tail(a), Tail(b))
    ELSE Rank(Head(a)) < Rank(Head(b))

IsSortedList(l) == \A i \in 1..(Len(l) - 1) : StrLess(l[i], l[i + 1])

Routed == pc = "routed" /\ routing.call = "analyze_and_route"

Selected == pc = "routed" /\ routing.call = "select_extraction_method"

(* C6: for every file type outside {pdf, docx, png, jpg, jpeg}, analyze_and_route
   raises UnsupportedFileTypeError whose supported_types holds exactly the five
   supported types, in sorted order. *)
C6_UnsupportedTypeListsSortedTypes ==
    (Routed /\ context.file_type \notin SupportedFileTypes) =>
        /\ routing.out.tag = "raise"
        /\ routing.out.exc.cls = "UnsupportedFileTypeError"
        /\ LET supported == routing.out.exc.details.supported_types
           IN /\ Len(supported) = 5
              /\ { supported[i] : i \in 1..Len(supported) } = SupportedFileTypes
              /\ IsSortedList(supported)

(* C7: when the request's file type, trimmed and lower-cased, is a supported
   type, analyze_and_route returns a decision with a non-empty reasoning and
   does not raise, whatever the document bytes are. *)
C7_SupportedTypeAlwaysRouted ==
    (Routed /\ Strip(Lower(request.file_type)) \in SupportedFileTypes) =>
        /\ routing.out.tag = "ret"
        /\ routing.out.val.reasoning # <<>>
        /\ \A i \in 1..Len(routing.out.val.reasoning) : routing.out.val.reasoning[i] # ""

C7_Witness ==
    /\ Routed
    /\ request.file_type = <<" ", "P", "D", "F", "\n">>
    /\ context.raw_bytes = GarbageBytes
    /\ routing.out.tag = "ret"
    /\ "error" \in DOMAIN routing.out.val.metadata

(* C8: an image (png, jpg, jpeg) is always routed to llm_vision, whatever its
   resolution, the analysis metadata and the router's Document Intelligence
   flags. *)
C8_ImagesAlwaysUseVision ==
    /\ (Selected /\ routing.doc_type \in ImageTypes) =>
           routing.out.tag = "ret" /\ routing.out.val.method = "llm_vision"
    /\ (Routed /\ context.file_type \in ImageFileTypes) =>
           routing.out.tag = "ret" /\ routing.out.val.method = "llm_vision"

C8_Witness ==
    /\ Routed
    /\ context.file_type = PNG
    /\ router.use_document_intelligence
    /\ routing.out.tag = "ret"
    /\ Get(routing.out.val.metadata, "is_low_resolution", FALSE)
    /\ routing.out.val.method = "llm_vision"

(* C9: a PDF whose first page holds at most 50 characters of text is routed to
   document_intelligence when the router may use OCR and use_di_for_scanned is
   set, and to llm_vision, without an error, when the router may not use OCR. *)
C9_ScannedPdfRouting ==
    ( /\ Routed
      /\ context.file_type = PDF
      /\ context.raw_bytes.kind = "pdf"
      /\ context.raw_bytes.total_pages > 0
      /\ context.raw_bytes.first_len <= 50 ) =>
        /\ (router.use_document_intelligence /\ router.use_di_for_scanned) =>
               routing.out.tag = "ret" /\ routing.out.val.method = "document_intelligence"
        /\ ~router.use_document_intelligence =>
               routing.out.tag = "ret" /\ routing.out.val.method = "llm_vision"

C9_Witness ==
    /\ Routed
    /\ context.file_type = PDF
    /\ context.raw_bytes.kind = "pdf"
    /\ context.raw_bytes.first_len = 50
    /\ router.use_document_intelligence
    /\ router.use_di_for_scanned
    /\ ~router.use_di_for_low_text
    /\ router.text_density_threshold = 0
    /\ routing.out.tag = "ret"
    /\ routing.out.val.method = "document_intelligence"

ScannedWithoutOcr ==
    /\ Selected
    /\ ~router.use_document_intelligence
    /\ routing.doc_type = "PDF"
    /\ Get(routing.metadata, "is_likely_scanned", FALSE)
    /\ Get(routing.metadata, "text_density", -1) = 0

(* C10 as stated: with use_document_intelligence = False, method selection for
   a scanned PDF (is_likely_scanned, text_density 0) raises
   DocumentRoutingError. *)
C10_ScannedPdfWithoutOcrRaises ==
    ScannedWithoutOcr =>
        routing.out.tag = "raise" /\ IsInstance(routing.out.exc.cls, "DocumentRoutingError")

(* C10 as amended: with use_document_intelligence = False, method selection for
   a scanned PDF (is_likely_scanned, text_density 0) returns llm_vision and
   raises nothing. *)
C10_ScannedPdfWithoutOcrUsesVision ==
    ScannedWithoutOcr =>
        routing.out.tag = "ret" /\ routing.out.val.method = "llm_vision"

C10_Witness ==
    /\ ScannedWithoutOcr
    /\ routing.out.tag = "ret"
    /\ routing.out.val.method = "llm_vision"
    /\ router.text_density_threshold = DefaultTextDensityThreshold

(* The decision table for a PDF, on the metadata values the selection reads
   (absent is_likely_scanned reads as false, absent text_density as 0). *)
TableMethod ==
    LET is_likely_scanned ==
            "is_likely_scanned" \in DOMAIN routing.metadata /\ routing.metadata.is_likely_scanned
        low_text ==
            ("text_density" \notin DOMAIN routing.metadata /\ 0 < router.text_density_threshold)
            \/ ("text_density" \in DOMAIN routing.metadata
                /\ routing.metadata.text_density < router.text_density_threshold)
    IN IF routing.doc_type \in {"PNG", "JPG", "JPEG"} THEN "llm_vision"
       ELSE IF routing.doc_type = "DOCX" THEN "llm_text"
       ELSE IF router.use_document_intelligence
               /\ ((is_likely_scanned /\ router.use_di_for_scanned)
                   \/ (low_text /\ router.use_di_for_low_text))
       THEN "document_intelligence"
       ELSE IF is_likely_scanned \/ low_text THEN "llm_vision"
       ELSE "llm_text"

(* C11: for every document type, analysis metadata (is_likely_scanned and
   text_density, each possibly absent) and router configuration, method
   selection returns the method of the decision table; and every PDF whose
   first page holds more than 50 characters and at least text_density_threshold
   characters is routed to llm_text. *)
C11_SelectionFollowsDecisionTable ==
    /\ Selected => (routing.out.tag = "ret" /\ routing.out.val.method = TableMethod)
    /\ ( /\ Routed
         /\ context.file_type = PDF
         /\ context.raw_bytes.kind = "pdf"
         /\ context.raw_bytes.total_pages > 0
         /\ context.raw_bytes.first_len > 50
         /\ context.raw_bytes.first_len >= router.text_density_threshold ) =>
            routing.out.tag = "ret" /\ routing.out.val.method = "llm_text"

C11_Witness ==
    /\ Routed
    /\ context.file_type = PDF
    /\ context.raw_bytes.kind = "pdf"
    /\ context.raw_bytes.first_len = DefaultTextDensityThreshold
    /\ router.text_density_threshold = DefaultTextDensityThreshold
    /\ router.use_document_intelligence
    /\ router.use_di_for_scanned
    /\ router.use_di_for_low_text
    /\ routing.out.tag = "ret"
    /\ routing.out.val.method = "llm_text"

----------------------------------------------------------------------------
(* Claims about the validator (checked under ComponentSpec) *)

Validated == pc = "returned" /\ request.call = "Validator.validate"

(* The validation model answered with an object *)
ValidationMap == reply # None /\ reply.tag = "ret" /\ reply.val.json = "object"

IsRequired(element) == "required" \in DOMAIN element /\ element.required

(* C12: with an empty data_elements, Validator.validate returns (and does not
   raise) success = false, the single error "Validation requires at least one
   data element", no scored field and overall_confidence 0.0, and the
   validation backend is never called. *)
C12_NoElementsShortCircuits ==
    (Validated /\ request.data_elements = <<>>) =>
        /\ result.tag = "ret"
        /\ result.val.success = FALSE
        /\ result.val.errors = << <<"Validation requires at least one data element">> >>
        /\ DOMAIN result.val.field_results = {}
        /\ result.val.overall_confidence = [num |-> 0, den |-> 1]
        /\ calls.validation_model = 0
        /\ reply = None

C12_Witness ==
    /\ Validated
    /\ request.data_elements = <<>>
    /\ request.extracted_data = EmptyDict
    /\ result.tag = "ret"
    /\ calls = NoCalls

(* C13: when the validation response has an entry for none of the declared
   data elements, Validator.validate returns success = false,
   overall_confidence 0.0 and an errors list that holds the 'no confidence
   scores' error and, for each required element, its 'missing from validation
   results' error. *)
C13_NothingScoredIsAnError ==
    ( /\ Validated
      /\ ValidationMap
      /\ \A i \in 1..Len(request.data_elements) :
             request.data_elements[i].name \notin DOMAIN reply.val.data ) =>
        /\ result.tag = "ret"
        /\ result.val.success = FALSE
        /\ result.val.overall_confidence = [num |-> 0, den |-> 1]
        /\ Contains(result.val.errors, <<"Validation produced no confidence scores">>)
        /\ \A i \in 1..Len(request.data_elements) :
               IsRequired(request.data_elements[i]) =>
                   Contains(result.val.errors,
                       <<"Required field '", request.data_elements[i].name,
                         "' missing from validation results">>)

C13_Witness ==
    /\ Validated
    /\ ValidationMap
    /\ DOMAIN reply.val.data = {}
    /\ Len(request.data_elements) = 1
    /\ IsRequired(request.data_elements[1])
    /\ request.extracted_data = [invoiceNumber |-> Value]
    /\ result.tag = "ret"
    /\ Len(result.val.errors) = 2

RECURSIVE ScoreSum(_, _)
ScoreSum(field_results, names) ==
    IF names = {} THEN 0
    ELSE LET name == CHOOSE n \in names : TRUE
         IN field_results[name].confidence_score + ScoreSum(field_results, names \ {name})

(* C14: for every validation response that gives a confidence for each of its
   fields, the overall_confidence that Validator.validate returns is the
   unweighted arithmetic mean of the confidence scores of all entries of the
   returned field_results. *)
C14_OverallIsMeanOfAllScores ==
    ( /\ Validated
      /\ ValidationMap
      /\ DOMAIN reply.val.data # {}
      /\ \A name \in DOMAIN reply.val.data : "confidence" \in DOMAIN reply.val.data[name]
      /\ result.tag = "ret" ) =>
        LET field_results == result.val.field_results
            count == Cardinality(DOMAIN field_results)
        IN /\ count > 0
           /\ result.val.overall_confidence.num * count =
                  ScoreSum(field_results, DOMAIN field_results)
                  * result.val.overall_confidence.den

(* The errors that name a field *)
FieldErrors(name) ==
    { result.val.errors[k] : k \in { j \in 1..Len(result.val.errors) :
          Len(result.val.errors[j]) >= 2 /\ result.val.errors[j][2] = name } }

(* C15: per required element, Validator.validate adds the 'missing from
   validation results' error when the element is absent from the validation
   map; when it is present, the threshold error exactly when its score is
   strictly below min_confidence_threshold and, independently, the 'failed
   validation' error exactly when is_valid is false; an optional element adds
   no error; and success is true exactly when the error list is empty. *)
C15_PerFieldErrors ==
    (Validated /\ ValidationMap /\ result.tag = "ret") =>
        /\ result.val.success = (result.val.errors = <<>>)
        /\ \A i \in 1..Len(request.data_elements) :
             LET element == request.data_elements[i]
                 name == element.name
                 missing == <<"Required field '", name, "' missing from validation results">>
                 failed == <<"Required field '", name, "' failed validation">>
             IN IF ~IsRequired(element) THEN FieldErrors(name) = {}
                ELSE IF name \notin DOMAIN result.val.field_results
                THEN FieldErrors(name) = {missing}
                ELSE LET field_result == result.val.field_results[name]
                         low == field_result.confidence_score < settings.min_confidence_threshold
                         below == <<"Required field '", name, "' confidence ">>
                                  \o Format2f(field_result.confidence_score)
                                  \o <<" below threshold ">>
                                  \o Format2f(settings.min_confidence_threshold)
                     IN FieldErrors(name) =
                            (IF low THEN {below} ELSE {})
                            \cup (IF field_result.is_valid THEN {} ELSE {failed})

C15_Witness ==
    /\ Validated
    /\ ValidationMap
    /\ settings.min_confidence_threshold = 95
    /\ Len(request.data_elements) = 2
    /\ IsRequired(request.data_elements[1])
    /\ IsRequired(request.data_elements[2])
    /\ reply.val.data = [invoiceNumber |-> [is_valid |-> TRUE, confidence |-> 95],
                         total |-> [is_valid |-> FALSE, confidence |-> 40]]
    /\ result.tag = "ret"
    /\ Len(result.val.errors) = 2
    /\ FieldErrors("invoiceNumber") = {}

----------------------------------------------------------------------------
(* Claims about the extractor (checked under ComponentSpec) *)

ExtractReturned == pc = "returned" /\ request.call = "Extractor.extract"

(* A required element that the strategy's payload lacks or holds as null *)
Lacking(i) ==
    /\ IsRequired(request.data_elements[i])
    /\ \/ request.data_elements[i].name \notin DOMAIN extraction.val.data
       \/ extraction.val.data[request.data_elements[i].name] = None

(* C16: whichever strategy produced the payload (text, vision or OCR-assisted),
   Extractor.extract raises RequiredFieldMissingError(field_name,
   field_description) for the first element in declaration order that is
   required and absent from the payload or null in it, and returns the payload
   only when no required element is absent or null. *)
C16_RequiredFieldsChecked ==
    (ExtractReturned /\ extraction.tag = "ret") =>
        LET lacking == { i \in 1..Len(request.data_elements) : Lacking(i) }
        IN IF lacking = {}
           THEN result = extraction
           ELSE LET first == CHOOSE i \in lacking : \A j \in lacking : i <= j
                    element == request.data_elements[first]
                IN /\ result.tag = "raise"
                   /\ result.exc.cls = "RequiredFieldMissingError"
                   /\ result.exc.details =
                          [field_name |-> element.name, field_description |-> element.description]
                   /\ result.exc.message =
                          <<"Required field '", element.name, "' not found in document">>

C16_Witness ==
    /\ ExtractReturned
    /\ request.arguments.use_document_intelligence
    /\ calls.ocr = 1
    /\ calls.text_model = 1
    /\ Len(request.data_elements) = 2
    /\ extraction.tag = "ret"
    /\ extraction.val.data = [invoiceNumber |-> None, total |-> None]
    /\ IsRequired(request.data_elements[1])
    /\ IsRequired(request.data_elements[2])
    /\ result.tag = "raise"
    /\ result.exc.details.field_name = "invoiceNumber"

----------------------------------------------------------------------------
(* Claims about the HTTP surface *)

Mapped == pc = "returned" /\ request.call = "map_exception_to_http_error"

(* The status and error kind of every exception class *)
ExpectedHttpError ==
    [ UnsupportedFileTypeError |-> <<400, "unsupported_file_type">>,
      Base64DecodingError |-> <<400, "invalid_base64">>,
      DocumentParsingError |-> <<400, "document_parsing_failed">>,
      PDFParsingError |-> <<400, "document_parsing_failed">>,
      DOCXParsingError |-> <<400, "document_parsing_failed">>,
      ImageParsingError |-> <<400, "document_parsing_failed">>,
      DocumentRoutingError |-> <<400, "document_routing_failed">>,
      RequiredFieldMissingError |-> <<422, "required_field_missing">>,
      InvalidExtractionResultError |-> <<422, "invalid_extraction_result">>,
      DocumentIntelligenceNotConfiguredError |-> <<503, "document_intelligence_not_configured">>,
      DocumentIntelligenceError |-> <<502, "document_intelligence_failed">>,
      ConfigurationError |-> <<500, "configuration_error">>,
      ExtractionError |-> <<500, "extraction_failed">>,
      TextExtractionError |-> <<500, "extraction_failed">>,
      VisionExtractionError |-> <<500, "extraction_failed">>,
      DocumentExtractionError |-> <<500, "document_extraction_error">>,
      ValidationError |-> <<500, "document_extraction_error">>,
      ValueError |-> <<500, "internal_server_error">>,
      BinasciiError |-> <<500, "internal_server_error">>,
      BackendError |-> <<500, "internal_server_error">>,
      ReaderError |-> <<500, "internal_server_error">> ]

(* C17: map_exception_to_http_error gives every exception the status and the
   error kind of its most specific class (no subclass is caught by the check
   of its superclass), and a non-domain exception the status 500 with the
   message 'An unexpected error occurred', which holds nothing of the
   exception's text. *)
C17_ExceptionsMapToStatus ==
    Mapped =>
        /\ result.val.status_code = ExpectedHttpError[request.exc.cls][1]
        /\ result.val.detail.error = ExpectedHttpError[request.exc.cls][2]
        /\ IF IsInstance(request.exc.cls, "DocumentExtractionError")
           THEN result.val.detail.message = request.exc.message
           ELSE /\ result.val.detail.message = <<"An unexpected error occurred">>
                /\ \A i \in 1..Len(request.exc.message) :
                       ~Contains(result.val.detail.message, request.exc.message[i])
                /\ "metadata" \notin DOMAIN result.val.detail \/ request.metadata # None

C17_Witness ==
    /\ Mapped
    /\ request.exc = RequiredFieldMissingError("invoiceNumber", "the invoiceNumber")
    /\ request.metadata = None
    /\ result.val.status_code = 422
    /\ result.val.detail.field_name = "invoiceNumber"
    /\ result.val.detail.metadata.field_description = "the invoiceNumber"

(* The domain errors of the extraction stage, by the text that opens their
   message, with the status and error kind of the layered scheme *)
DomainErrorKinds ==
    { [part |-> "Unsupported file type: ", status_code |-> 400,
       error |-> "unsupported_file_type"],
      [part |-> "Invalid base64 document payload: ", status_code |-> 400,
       error |-> "invalid_base64"],
      [part |-> "No text could be extracted from DOCX document", status_code |-> 400,
       error |-> "document_parsing_failed"],
      [part |-> "Failed to parse image: ", status_code |-> 400,
       error |-> "document_parsing_failed"],
      [part |-> "Required field '", status_code |-> 422,
       error |-> "required_field_missing"],
      [part |-> "Azure Document Intelligence not configured. ", status_code |-> 503,
       error |-> "document_intelligence_not_configured"] }

(* C18: a request that fails in the extraction stage with a domain error
   (unsupported file type, invalid transport encoding, document parse failure,
   required field missing, OCR backend not configured) is answered with the
   HTTP status that error maps to (400, 422, 503) and its error kind. *)
C18_DomainErrorsAnsweredWithStatus ==
    pc = "ExtractionFailed" =>
        \A kind \in DomainErrorKinds :
            Contains(extraction.error, kind.part) =>
                /\ http_response.status_code = kind.status_code
                /\ "detail" \in DOMAIN http_response.body
                /\ http_response.body.detail.error = kind.error

----------------------------------------------------------------------------
(* Claims about the reply parser *)

Parsed == pc = "returned" /\ request.call = "StructuredResponseParser.parse"

Braces(text, brace) == { i \in 1..Len(text) : text[i] = brace }

(* The reply from its first opening to its last closing brace *)
BracedSpan(text) ==
    SubSeq(text,
           CHOOSE i \in Braces(text, "{") : \A j \in Braces(text, "{") : i <= j,
           CHOOSE i \in Braces(text, "}") : \A j \in Braces(text, "}") : i >= j)

(* C19: parse takes the span from the first '{' to the last '}' of the reply,
   whatever prose or code fence surrounds it, strips redundant doubled outer
   braces, reads the span as JSON first and as YAML only when that fails, and
   returns the value only if it is an object; a reply without a braced span,
   with a span neither reader accepts or with a value that is no object
   raises InvalidExtractionResultError, and nothing else is raised. *)
C19_ParseTakesBracedObject ==
    Parsed =>
        LET text == request.response_text
        IN /\ result.tag = "raise" => result.exc.cls = "InvalidExtractionResultError"
           /\ result.tag = "ret" => result.val # None
           /\ IF Braces(text, "{") = {} \/ Braces(text, "}") = {}
              THEN /\ result.tag = "raise"
                   /\ Contains(result.exc.message, "No JSON object found in ")
              ELSE LET candidate == strip_redundant_wrappers(BracedSpan(text))
                       as_json == JsonLoads(candidate)
                       as_yaml == YamlLoads(candidate)
                   IN IF as_json.tag = "ret" THEN result = as_json
                      ELSE IF as_yaml.tag = "ret" /\ as_yaml.val # None THEN result = as_yaml
                      ELSE result.tag = "raise"

C19_Witness ==
    /\ Parsed
    /\ request.response_text =
           <<"LLM output:", "\n", "~~~json", "\n", "{", "{", YamlMember, "}", "}", "\n", "~~~">>
    /\ result = Ret([foo |-> "bar"])

----------------------------------------------------------------------------
(* Claims about the document context *)

(* C20: after construction the file_type and the base64_data of a
   DocumentContext never change; raw_bytes, once set, is never set again, and
   no read that follows a read that returned bytes decodes the payload again;
   every read after the first one that returned returns the same bytes. *)
C20_ContextDecodesOnce ==
    [][ pc = "constructed" =>
          /\ context'.file_type = context.file_type
          /\ context'.base64_data = context.base64_data
          /\ context.raw_bytes # None =>
                /\ context'.raw_bytes = context.raw_bytes
                /\ request'.decodes = request.decodes
          /\ result.tag = "ret" =>
                /\ result' = result
                /\ request'.decodes = request.decodes
                /\ request'.decodes <= 1 ]_vars

C20_Witness ==
    /\ pc = "constructed"
    /\ request.raw_bytes = None
    /\ request.base64_data = Payload("valid", ScannedPdf)
    /\ request.reads = MaxReads
    /\ request.decodes = 1
    /\ result = Ret(ScannedPdf)
    /\ context.raw_bytes = ScannedPdf

----------------------------------------------------------------------------
(* Claims about the extractor agent *)

BackendCalls == calls.ocr + calls.text_model + calls.vision_model + calls.validation_model

(* C21: a document payload that is the empty string or is not valid base64 is
   rejected by the extractor agent's upfront decoding of the payload: the
   extraction fails before the document is routed and before any backend is
   called. *)
C21_BadPayloadRejectedUpfront ==
    (pc # "Start" /\ request.document_base64.text \in {"empty", "invalid"}) =>
        /\ routing = None
        /\ BackendCalls = 0
        /\ pc \in {"Extracting", "ExtractionFailed"}
        /\ pc = "ExtractionFailed" => ~extraction.success

(* The library reader of the document's type raises on the document's bytes *)
AnalysisFails ==
    \/ context.file_type = PDF /\ PdfReader(context.raw_bytes).tag = "raise"
    \/ context.file_type \in ImageFileTypes /\ ImageOpen(context.raw_bytes).tag = "raise"

(* C23: when the analysis of a supported document fails internally (the PDF
   reader or the image decoder raises on the bytes), analyze_and_route still
   returns a decision, and the decision's metadata holds the key
   'analysis_error'. *)
C23_AnalysisFailureRecorded ==
    (Routed /\ AnalysisFails) =>
        /\ routing.out.tag = "ret"
        /\ "analysis_error" \in DOMAIN routing.out.val.metadata

(* C24: every confidence_score of a field result the validator returns, and
   the overall_confidence with them, lies in [0,1] (0..100 hundredths),
   whatever the validation model replied. *)
C24_ConfidenceWithinUnit ==
    (Validated /\ result.tag = "ret") =>
        /\ \A name \in DOMAIN result.val.field_results :
               result.val.field_results[name].confidence_score \in 0..100
        /\ result.val.overall_confidence.num >= 0
        /\ result.val.overall_confidence.num <= 100 * result.val.overall_confidence.den

----------------------------------------------------------------------------
(* Claims about the orchestrator's results *)

(* The validator agent caught an exception of Validator.validate *)
ValidationStageFailed ==
    /\ pc = "ValidationFailed"
    /\ validation.errors # <<>>
    /\ Head(validation.errors[1]) = "Validation failed: "

(* C25: when the validation stage itself fails after a successful extraction
   (the validation model's call raises or its reply cannot be parsed),
   orchestrate returns a failed result that still carries the data the
   extractor extracted, without confidence scores. *)
C25_ValidationFailureKeepsData ==
    ValidationStageFailed =>
        /\ ~result.success
        /\ result.extracted_data = extraction.data
        /\ result.confidence_scores = EmptyDict

----------------------------------------------------------------------------
(* Claims about the extraction strategies *)

OcrMode ==
    /\ request.arguments.use_document_intelligence
    /\ request.arguments.document_base64 # None
    /\ request.arguments.document_base64.text # "empty"

VisionMode == request.arguments.image_data # None

TextMode == request.arguments.text \notin {NoneStr, <<>>}

(* C26: Extractor.extract runs one strategy per call, the OCR-assisted one
   when use_document_intelligence comes with a document payload, else the
   vision one when image data is given, else the text one when a non-empty
   text is given; with none of the three it raises ExtractionError and calls
   no backend. *)
C26_OneStrategyByPriority ==
    ExtractReturned =>
        IF OcrMode
        THEN /\ calls.vision_model = 0
             /\ calls.ocr <= 1
             /\ calls.text_model <= calls.ocr
        ELSE IF VisionMode
        THEN calls.vision_model = 1 /\ calls.ocr = 0 /\ calls.text_model = 0
        ELSE IF TextMode
        THEN calls.text_model = 1 /\ calls.ocr = 0 /\ calls.vision_model = 0
        ELSE /\ calls = NoCalls
             /\ result.tag = "raise"
             /\ result.exc.cls = "ExtractionError"
             /\ result.exc.message = <<"No valid input provided for extraction">>

C26_Witness ==
    /\ ExtractReturned
    /\ OcrMode /\ VisionMode /\ TextMode
    /\ calls.ocr = 1
    /\ calls.text_model = 1
    /\ result.tag = "ret"

(* What the OCR-assisted strategy does once it holds a client and has issued
   its OCR call: a failed or empty reading raises DocumentIntelligenceError
   without a call of the text model, a reading with text goes to the text
   model under page labels. *)
OcrCallFollowedThrough ==
    /\ calls.ocr = 1
    /\ calls.vision_model = 0
    /\ IF calls.text_model = 0
       THEN /\ reply.tag = "raise" \/ reply.val.pages_with_lines = 0
            /\ extraction.tag = "raise"
            /\ extraction.exc.cls = "DocumentIntelligenceError"
       ELSE /\ calls.text_model = 1
            /\ extraction.tag = "ret" =>
                  /\ extraction.val.document_content # <<>>
                  /\ Head(extraction.val.document_content) = "=== Page "

OcrNotConfigured ==
    /\ calls = NoCalls
    /\ extraction.tag = "raise"
    /\ extraction.exc.cls = "DocumentIntelligenceNotConfiguredError"

(* C27 as stated: the OCR-assisted strategy raises
   DocumentIntelligenceNotConfiguredError without a backend call when it holds
   no OCR client; otherwise it calls the OCR backend once, raises
   DocumentIntelligenceError when no line was recognized and else hands the
   page-labeled text to the text strategy. *)
C27_OcrStrategyCallsOcrOnce ==
    (ExtractReturned /\ OcrMode) =>
        IF Extractor(settings).doc_intelligence_client = None
        THEN OcrNotConfigured
        ELSE OcrCallFollowedThrough

(* C27, amended: as above when the document payload is valid base64; a
   payload that does not decode raises DocumentIntelligenceError before the
   OCR backend is called. *)
C27_OcrStrategyCallsOcrAfterDecoding ==
    (ExtractReturned /\ OcrMode) =>
        IF Extractor(settings).doc_intelligence_client = None
        THEN OcrNotConfigured
        ELSE IF request.arguments.document_base64.text = "invalid"
        THEN /\ calls = NoCalls
             /\ extraction.tag = "raise"
             /\ extraction.exc.cls = "DocumentIntelligenceError"
        ELSE OcrCallFollowedThrough

C27_Witness ==
    /\ ExtractReturned
    /\ OcrMode
    /\ request.arguments.document_base64 = Payload("valid", ScannedPdf)
    /\ calls.ocr = 1
    /\ calls.text_model = 1
    /\ extraction.tag = "ret"
    /\ Head(extraction.val.document_content) = "=== Page "

(* Claims about the parsers of model replies *)

RaisesInvalidResult(outcome) ==
    outcome.tag = "raise" /\ outcome.exc.cls = "InvalidExtractionResultError"

(* C28: for every reply text the Extractor's parser and the Validator's
   parser either return the same object or both raise
   InvalidExtractionResultError. *)
C28_ParsersAgree ==
    Parsed =>
        \/ extraction.tag = "ret" /\ result.tag = "ret" /\ extraction.val = result.val
        \/ RaisesInvalidResult(extraction) /\ RaisesInvalidResult(result)

(* Claims about the agent's construction *)

RoutedToOcr ==
    /\ pc # "Start"
    /\ routing # None
    /\ routing.out.tag = "ret"
    /\ routing.out.val.method = "document_intelligence"

(* C29: whenever the router of an ExtractorAgent selects
   document_intelligence, the agent's Extractor holds an OCR client, and the
   request does not fail for a missing OCR configuration. *)
C29_RouterOcrImpliesClient ==
    RoutedToOcr =>
        /\ Extractor(settings).doc_intelligence_client # None
        /\ pc = "ExtractionFailed" =>
               ~Contains(extraction.error, "Azure Document Intelligence not configured. ")

(* Claims about every result of orchestrate *)

(* C30: every OrchestrationResult returned by orchestrate has success = true
   if and only if its errors list is empty. *)
C30_SuccessIffNoErrors ==
    (pc \in {"ExtractionFailed"} \cup AfterValidation) =>
        (result.success <=> result.errors = <<>>)

C30_Witness ==
    /\ pc = "ValidationFailed"
    /\ extraction.success
    /\ ~result.success
    /\ result.errors = << <<"Validation produced no confidence scores">> >>

(* Claims about concurrent requests (checked under ConcurrentSpec) *)

(* C22: in every interleaving of two orchestrate calls on the shared
   orchestrator, the result and the HTTP answer of a request that has returned
   are the ones orchestrate computes for that request alone from the answers the
   backends gave to it; nothing another request wrote enters them. *)
C22_RequestsIndependent ==
    Returned => Answer(result, http_response) = orchestrate(settings, request, replies)

C22_Witness ==
    /\ pc = "Validated"
    /\ request.file_type = PDF
    /\ Len(replies) = 3
    /\ suspended # None
    /\ suspended.request.file_type = PNG
    /\ suspended.pc = "Validating"
    /\ suspended.pending.await = "validation_model"
    /\ suspended.routing.out.val.method = "llm_vision"
    /\ routing.out.val.method = "document_intelligence"

====
